---- MODULE Spec2Model ----
(***************************************************************************)
(* Model of the backend integration layer of the Car-Parking client        *)
(* (src/src/services/api.ts): the session manager (token hydration, the    *)
(* request and response interceptors, login, register, logout, refresh,    *)
(* deleteProfile) and the bookings listing (fetchUserBookings).            *)
(*                                                                         *)
(* The program is single-threaded and event-driven: every operation runs   *)
(* synchronously up to its network call, and its continuation runs when    *)
(* the response arrives.  An operation is therefore two steps, the send    *)
(* and the response, and steps of different operations interleave.         *)
(***************************************************************************)
EXTENDS Integers, Sequences, FiniteSets, Bags

VARIABLES
  localToken,    \* localStorage["auth_token"], NoVal when the key is absent
  sessionToken,  \* sessionStorage["auth_token"], NoVal when the key is absent
  localUser,     \* localStorage["user"], NoUser when the key is absent
  defaultAuth,   \* api.defaults.headers.common["Authorization"] (the token of "Bearer <token>")
  inflight,      \* requests sent and not yet answered: a bag of <<operation, carried a credential>>
  last,          \* what the last step did (observation of sends, results and signals)
  authIn,        \* the HTTP response body handed to login or register
  bookingsIn,    \* the HTTP response body handed to fetchUserBookings
  bookingsOut,   \* what the last call of fetchUserBookings resolved with
  bookingsPrev,  \* what the call of fetchUserBookings before the last resolved with
  now,           \* the clock new Date() reads
  endFlow,       \* the end-parking flow of the active-booking page
  cancel,        \* the calls of cancelBooking on one booking
  pay,           \* the booking flow: home page, confirmation page, payment page
  mutation,      \* one direct call of a mutating operation after the other
  floors,        \* a call of fetchFloors: the slots the backend lists, the floors returned
  home,          \* the home page: the selected garage, its slot list, the selected slot
  bookingsPage   \* the bookings page: the listing of the backend, the two lists shown

vars == <<localToken, sessionToken, localUser, defaultAuth, inflight, last, authIn,
          bookingsIn, bookingsOut, bookingsPrev, now, endFlow, cancel, pay, mutation, floors,
          home, bookingsPage>>

sessionVars == <<localToken, sessionToken, localUser, defaultAuth, inflight, last>>

bookingVars == <<bookingsIn, bookingsOut, bookingsPrev, now>>

storageVars == <<localToken, sessionToken, localUser, defaultAuth>>

\* the state of the pages
pageVars == <<home, bookingsPage>>

\* the state of the orchestrator flows
orchVars == <<endFlow, cancel, pay, mutation, floors, home, bookingsPage>>

----------------------------------------------------------------------------
(* Bounds *)

\* requests that may be in flight at the same time
MaxInflight == 2

\* bookings in one response of GET /bookings
MaxBookings == 2

\* ticks of the clock
MaxClock == 1

\* clicks on "End parking"
MaxClicks == 2

\* calls of cancelBooking on one booking
MaxCancels == 2

\* clicks on "Pay" in one visit of the payment page
MaxPayClicks == 2

\* direct calls of mutating operations
MaxMutations == 2

\* slots of one garage
MaxSlots == 4

\* garage selections on the home page
MaxSelects == 3

\* times the bookings page loads its lists
MaxLoads == 2

----------------------------------------------------------------------------
(* Storage values and JavaScript truthiness *)

\* getItem() of an absent key (null), or an absent header
NoVal == "<absent>"

\* no user snapshot stored
NoUser == [id |-> NoVal, email |-> NoVal]

\* tokens the backend issues
Tokens == {"t1", "t2"}

\* truthiness of a string-or-null value
TruthyStr(s) == s # NoVal /\ s # ""

\* a || b on string-or-null values
OrStr(a, b) == IF TruthyStr(a) THEN a ELSE b

\* token && token !== "undefined" && token !== "null"
UsableToken(token) == TruthyStr(token) /\ token # "undefined" /\ token # "null"

----------------------------------------------------------------------------
(* JSON values of response bodies.  Every value is a record with a tag t;  *)
(* an object carries all the keys the code reads, an absent key holding    *)
(* Undefined.                                                              *)

Undefined == [t |-> "undefined"]

Null == [t |-> "null"]

Str(s) == [t |-> "string", s |-> s]

Arr(items) == [t |-> "array", items |-> items]

Num(n) == [t |-> "number", n |-> n]

Bool(b) == [t |-> "boolean", b |-> b]

\* JavaScript truthiness of a JSON value
Truthy(v) == /\ v.t # "undefined"
             /\ v.t # "null"
             /\ ~(v.t = "string" /\ v.s = "")
             /\ ~(v.t = "number" /\ v.n = 0)
             /\ ~(v.t = "boolean" /\ ~v.b)

\* v && typeof v === "object"
IsObject(v) == v.t \in {"object", "array"}

\* a || b
Or(a, b) == IF Truthy(a) THEN a ELSE b

\* o.k, Undefined when o has no such key; only called on non-nullish o
Get(o, k) == IF k \in DOMAIN o THEN o[k] ELSE Undefined

\* o?.k
GetOpt(o, k) == IF o.t \in {"undefined", "null"} THEN Undefined ELSE Get(o, k)

\* o[0]: the first element of an array, the key "0" ("zero") of an object
Index0(o) == IF o.t = "array"
             THEN (IF Len(o.items) > 0 THEN o.items[1] ELSE Undefined)
             ELSE Get(o, "zero")

\* String(v) for the values a token or an id can hold
StringOf(v) == CASE v.t = "string" -> v.s
                 [] v.t = "undefined" -> "undefined"
                 [] v.t = "null" -> "null"
                 [] OTHER -> "[object Object]"

\* evaluating o.k throws a TypeError when o is undefined or null
Throws(o) == o.t \in {"undefined", "null"}

----------------------------------------------------------------------------
(* The session state an operation reads and writes, with what the          *)
(* operation signalled and returned.                                       *)

Session(lt, st, lu, da) ==
  [lt |-> lt, st |-> st, lu |-> lu, da |-> da,
   redirects |-> 0, raised |-> FALSE, retToken |-> NoVal, retUser |-> NoUser]

\* outcomes of a request: an HTTP status, or a transport failure code
Outcomes == {"200", "401", "500", "ERR_NETWORK", "ECONNABORTED"}

\* axios rejects on a status outside 2xx and on a transport failure
Rejected(outcome) == outcome # "200"

\* a faulty variant: hydration that forgets the placeholder check
hydrateAnyTruthyToken(lt, st, da) ==
  LET token == OrStr(lt, st)
  IN  IF TruthyStr(token) THEN token ELSE da

\* hydrateAuthToken: runs once when the module is loaded, on fresh defaults
hydrateAuthToken(lt, st, da) ==
  LET token == OrStr(lt, st)
  IN  IF UsableToken(token) THEN token ELSE da

\* a faulty variant: an interceptor that leaves the anonymous calls without a credential
requestInterceptorSkipsAuthCalls(op, lt, st, headerAuth) ==
  LET token == OrStr(lt, st)
  IN  IF op \in {"login", "register"} THEN NoVal
      ELSE IF UsableToken(token) THEN token ELSE headerAuth

\* request interceptor on the request of operation op: the credential the
\* request leaves with; headerAuth is the Authorization header the request
\* got from the instance defaults (the interceptor does not look at op)
requestInterceptor(op, lt, st, headerAuth) ==
  LET token == OrStr(lt, st)
  IN  IF UsableToken(token) THEN token ELSE headerAuth

\* a faulty variant: a 401 reset that leaves the user snapshot behind
responseInterceptorKeepsUser(S, outcome) ==
  IF outcome = "401"
  THEN [S EXCEPT !.lt = NoVal, !.st = NoVal, !.redirects = @ + 1]
  ELSE S

\* response interceptor, error branch: the error is passed on in any case
responseInterceptor(S, outcome) ==
  IF outcome = "401"
  THEN [S EXCEPT !.lt = NoVal, !.st = NoVal, !.lu = NoUser,
                 !.redirects = @ + 1]
  ELSE S

\* extractData: response.data.data when response.data is an object that has
\* the key "data", else response.data
extractData(body) ==
  IF IsObject(body) /\ body.t = "object" /\ "data" \in DOMAIN body /\ body.data.t # "undefined"
  THEN body.data
  ELSE body

----------------------------------------------------------------------------
(* login *)

\* a faulty variant: the user is looked for at the top level only
loginRawUserTopLevel(d) ==
  IF IsObject(Get(d, "user")) THEN Get(d, "user")
  ELSE IF IsObject(Index0(d)) THEN Index0(d)
  ELSE Null

\* flexible user extraction of login; Null when no location holds an object
loginRawUser(d) ==
  IF IsObject(Get(d, "user")) THEN Get(d, "user")
  ELSE IF IsObject(Index0(d)) THEN Index0(d)
  ELSE IF IsObject(GetOpt(Get(d, "data"), "user")) THEN GetOpt(Get(d, "data"), "user")
  ELSE IF ~Throws(Get(d, "data")) /\ IsObject(Index0(Get(d, "data"))) THEN Index0(Get(d, "data"))
  ELSE Null

\* normalized user of login: id and email, "" when the payload has none
loginNormalizeUser(rawUser) ==
  [id    |-> StringOf(Or(Or(Get(rawUser, "id"), Get(rawUser, "user_id")), Str(""))),
   email |-> StringOf(Or(Get(rawUser, "email"), Str("")))]

\* flexible token extraction of login; NoVal when no location holds one
loginToken(d) ==
  IF Truthy(Get(d, "token")) THEN StringOf(Get(d, "token"))
  ELSE IF Truthy(Get(d, "access_token")) THEN StringOf(Get(d, "access_token"))
  ELSE IF Truthy(GetOpt(Get(d, "data"), "token")) THEN StringOf(GetOpt(Get(d, "data"), "token"))
  ELSE IF Truthy(GetOpt(Get(d, "data"), "access_token")) THEN StringOf(GetOpt(Get(d, "data"), "access_token"))
  ELSE NoVal

\* what makes the try block of login throw
loginFails(outcome, body) ==
  \/ Rejected(outcome)
  \/ Throws(extractData(body))
  \/ loginRawUser(extractData(body)).t = "null"
  \/ loginNormalizeUser(loginRawUser(extractData(body))).id = ""
  \/ loginNormalizeUser(loginRawUser(extractData(body))).email = ""
  \/ ~TruthyStr(loginToken(extractData(body)))
  \/ loginToken(extractData(body)) \in {"undefined", "null"}

\* a faulty variant: a catch block that leaves the default credential installed
loginCatchKeepsDefault(S) ==
  [S EXCEPT !.lt = NoVal, !.lu = NoUser, !.raised = TRUE]

\* the catch block of login
loginCatch(S) ==
  [S EXCEPT !.lt = NoVal, !.lu = NoUser, !.da = NoVal, !.raised = TRUE]

\* login, from the arrival of the response on
login(S, outcome, body) ==
  LET S1    == responseInterceptor(S, outcome)
      d     == extractData(body)
      user  == loginNormalizeUser(loginRawUser(d))
      token == loginToken(d)
  IN  IF loginFails(outcome, body)
      THEN loginCatch(S1)
      ELSE [S1 EXCEPT !.lt = token, !.lu = user, !.da = token,
                      !.retToken = token, !.retUser = user]

----------------------------------------------------------------------------
(* register *)

\* the email of the registration form (payload.email)
PayloadEmail == "e0"

\* flexible user extraction of register; the last location is not type-checked
registerRawUser(d) ==
  IF IsObject(Get(d, "user")) THEN Get(d, "user")
  ELSE IF IsObject(Index0(d)) THEN Index0(d)
  ELSE IF Truthy(GetOpt(Get(d, "data"), "user")) THEN GetOpt(Get(d, "data"), "user")
  ELSE Null

\* normalized user of register: the email falls back to the form's
registerNormalizeUser(rawUser) ==
  [id    |-> StringOf(Or(Or(Get(rawUser, "id"), Get(rawUser, "user_id")), Str(""))),
   email |-> StringOf(Or(Get(rawUser, "email"), Str(PayloadEmail)))]

\* flexible token extraction of register
registerToken(d) ==
  IF Truthy(Get(d, "token")) THEN StringOf(Get(d, "token"))
  ELSE IF Truthy(Get(d, "access_token")) THEN StringOf(Get(d, "access_token"))
  ELSE IF Truthy(GetOpt(Get(d, "data"), "token")) THEN StringOf(GetOpt(Get(d, "data"), "token"))
  ELSE NoVal

\* what makes the try block of register throw
registerFails(outcome, body) ==
  \/ Rejected(outcome)
  \/ Throws(extractData(body))
  \/ registerRawUser(extractData(body)).t = "null"

\* a faulty variant: register storing any truthy token, placeholders included
registerStoresTruthy(token) == TruthyStr(token)

\* register stores the token and the user only if the token is usable
registerStores(token) == UsableToken(token)

\* register, from the arrival of the response on
register(S, outcome, body) ==
  LET S1    == responseInterceptor(S, outcome)
      d     == extractData(body)
      user  == registerNormalizeUser(registerRawUser(d))
      token == registerToken(d)
  IN  IF registerFails(outcome, body)
      THEN [S1 EXCEPT !.raised = TRUE]
      ELSE IF registerStores(token)
      THEN [S1 EXCEPT !.lt = token, !.lu = user, !.da = token, !.retUser = user]
      ELSE [S1 EXCEPT !.retUser = user]

----------------------------------------------------------------------------
(* logout, refresh, deleteProfile *)

\* the finally block of logout
logoutFinally(S) ==
  [S EXCEPT !.lt = NoVal, !.st = NoVal, !.lu = NoUser, !.da = NoVal]

\* a faulty variant: a logout that clears only after the server accepted it
logoutOnSuccessOnly(S, outcome) ==
  IF Rejected(outcome)
  THEN [responseInterceptor(S, outcome) EXCEPT !.raised = TRUE]
  ELSE logoutFinally(S)

\* logout, from the arrival of the response on: the catch block logs
logout(S, outcome) == logoutFinally(responseInterceptor(S, outcome))

\* refresh, from the arrival of the response on: data.token is stored as
\* it is (setItem and the template literal convert it to a string)
refresh(S, outcome, body) ==
  LET S1 == responseInterceptor(S, outcome)
      d  == extractData(body)
  IN  IF Rejected(outcome) \/ Throws(d)
      THEN [S1 EXCEPT !.raised = TRUE]
      ELSE [S1 EXCEPT !.lt = StringOf(Get(d, "token")),
                      !.da = StringOf(Get(d, "token")),
                      !.retToken = StringOf(Get(d, "token"))]

\* what deleteProfile clears after the request succeeded
deleteProfileClear(S) ==
  [S EXCEPT !.lt = NoVal, !.st = NoVal, !.lu = NoUser, !.da = NoVal]

\* a faulty variant: a deleteProfile that clears before it knows the outcome
deleteProfileClearsFirst(S, outcome) ==
  LET S1 == deleteProfileClear(responseInterceptor(S, outcome))
  IN  IF Rejected(outcome) THEN [S1 EXCEPT !.raised = TRUE] ELSE S1

\* deleteProfile, from the arrival of the response on
deleteProfile(S, outcome) ==
  LET S1 == responseInterceptor(S, outcome)
  IN  IF Rejected(outcome)
      THEN [S1 EXCEPT !.raised = TRUE]
      ELSE deleteProfileClear(S1)

\* the session part of fetchUserBookings: its catch block swallows the error
fetchUserBookingsSession(S, outcome) == responseInterceptor(S, outcome)

----------------------------------------------------------------------------
(* Errors and formatError *)

\* outcomes of the requests of the booking operations
BookingOutcomes == Outcomes \cup {"400", "404"}

\* the AxiosError of a rejected request: the status of the response (NoVal
\* on a transport failure), the transport code, the message and error
\* fields of the response body, and the message axios composes
AxiosError(outcome, dataMessage, dataError) ==
  [isAxios     |-> TRUE,
   status      |-> IF outcome \in {"ERR_NETWORK", "ECONNABORTED"} THEN NoVal ELSE outcome,
   code        |-> IF outcome \in {"ERR_NETWORK", "ECONNABORTED"} THEN outcome ELSE "ERR_BAD_RESPONSE",
   dataMessage |-> dataMessage,
   dataError   |-> dataError,
   message     |-> "axios: request failed"]

\* new Error(message): it has no response and no status
PlainError(message) ==
  [isAxios |-> FALSE, status |-> NoVal, code |-> NoVal,
   dataMessage |-> NoVal, dataError |-> NoVal, message |-> message]

NoError == PlainError(NoVal)

\* a faulty variant: the status table is read before the response body
formatErrorStatusFirst(error) ==
  IF error.isAxios
  THEN IF error.status = "404" THEN "Resource not found"
       ELSE IF error.status = "403" THEN "Access forbidden"
       ELSE IF error.status = "401" THEN "Unauthorized. Please login again"
       ELSE IF error.status = "500" THEN "Server error. Please try again later"
       ELSE IF error.status \in {"400", "422"} THEN "Invalid request"
       ELSE IF error.status \in {"502", "503"} THEN "Server error"
       ELSE IF TruthyStr(error.dataMessage) THEN error.dataMessage
       ELSE IF TruthyStr(error.dataError) THEN error.dataError
       ELSE IF error.code = "ECONNABORTED" THEN "Request timeout. Please try again"
       ELSE IF error.code = "ERR_NETWORK" THEN "Network error. Check your connection"
       ELSE OrStr(error.message, "An error occurred")
  ELSE error.message

\* formatError
formatError(error) ==
  IF error.isAxios
  THEN IF TruthyStr(error.dataMessage) THEN error.dataMessage
       ELSE IF TruthyStr(error.dataError) THEN error.dataError
       ELSE IF error.status = "404" THEN "Resource not found"
       ELSE IF error.status = "403" THEN "Access forbidden"
       ELSE IF error.status = "401" THEN "Unauthorized. Please login again"
       ELSE IF error.status = "500" THEN "Server error. Please try again later"
       ELSE IF error.status \in {"400", "422"} THEN "Invalid request"
       ELSE IF error.status \in {"502", "503"} THEN "Server error"
       ELSE IF error.code = "ECONNABORTED" THEN "Request timeout. Please try again"
       ELSE IF error.code = "ERR_NETWORK" THEN "Network error. Check your connection"
       ELSE OrStr(error.message, "An error occurred")
  ELSE error.message

\* the catch block of the operations: throw new Error(formatError(error))
Rethrow(error) == PlainError(formatError(error))

\* message and error fields a rejecting backend may put in the response body
DataMessages ==
  {NoVal, "Booking is already completed", "Booking Already Ended", "Booking not found"}

DataErrors == {NoVal, "Bad request"}

\* the errors a request answered with outcome may be rejected with
RejectionsOf(outcome) ==
  IF outcome \in {"ERR_NETWORK", "ECONNABORTED"}
  THEN {AxiosError(outcome, NoVal, NoVal)}
  ELSE {AxiosError(outcome, m, e) : m \in DataMessages, e \in DataErrors}

\* message.toLowerCase().includes(needle), for the messages of the model
LowerIncludes(message, needle) ==
  \/ message = "Booking is already completed" /\ needle = "already completed"
  \/ message = "Booking Already Ended" /\ needle = "already ended"

----------------------------------------------------------------------------
(* The idle states of the orchestrator flows *)

\* no booking returned
NoBooking == [id |-> NoVal, status |-> NoVal]

\* the page shows an active booking and nothing has been clicked
EndIdle ==
  [pc |-> "idle", endingParking |-> FALSE, requests |-> 0, outcome |-> "-",
   rejection |-> NoError, raised |-> FALSE, booking |-> NoBooking,
   navigated |-> FALSE, error |-> NoVal]

\* no booking looked up
NoLookup == [id |-> NoVal, garageId |-> NoVal, slotId |-> NoVal, status |-> NoVal]

\* cancelBooking has not been called
CancelIdle ==
  [pc |-> "idle", calls |-> 0, sent |-> <<>>, lookupOutcome |-> "-", booking |-> NoLookup,
   releaseOutcome |-> "-", releasedBefore |-> FALSE, raised |-> FALSE, error |-> NoVal,
   result |-> NoLookup]

\* no pay request sent
NoPayRequest ==
  [parking_spot_id |-> NoVal, garage_id |-> NoVal, user_id |-> NoVal,
   total_amount |-> Undefined, duration_hours |-> 0, payment_method |-> NoVal,
   vehicle_plate |-> NoVal]

\* the home page is shown and no slot has been chosen
PayIdle ==
  [pc |-> "home", rate |-> 0, homeDuration |-> 2, formDuration |-> 2,
   booking |-> Null, navTotal |-> 0, navDuration |-> 0, method |-> "card",
   request |-> NoPayRequest, reserveRequests |-> 0, payRequests |-> 0,
   outcome |-> "-", status |-> NoVal]

\* no mutating operation has been called
MutationIdle ==
  [op |-> "-", pc |-> "idle", calls |-> 0, requests |-> 0, outcome |-> "-",
   raised |-> FALSE, error |-> NoVal]

\* fetchFloors has not been called; body is what the backend lists
FloorsIdle(body) ==
  [body |-> body, pc |-> "idle", outcome |-> "-", raised |-> FALSE,
   slots |-> <<>>, result |-> <<>>]

\* no slot selected
NoSlot == [id |-> NoVal, status |-> NoVal, level |-> 0]

\* the home page has not navigated to the confirmation page
NoNav == [garageId |-> NoVal, slotId |-> NoVal]

\* the home page before a garage is selected
HomeIdle ==
  [garage |-> NoVal, slots |-> <<>>, slot |-> NoSlot, loadingSlots |-> FALSE,
   pending |-> <<>>, selects |-> 0, nav |-> NoNav]

\* the bookings page before it loads; listing is what GET /bookings answers
BookingsPageIdle(listing) ==
  [listing |-> listing, pc |-> "idle", outcome |-> "-", current |-> <<>>, past |-> <<>>,
   loads |-> 0, cancelledHere |-> {}]

\* no page is open
PagesIdle ==
  /\ home = HomeIdle
  /\ bookingsPage = BookingsPageIdle(Null)

\* no orchestrator flow has been started
OrchIdle ==
  /\ endFlow = EndIdle
  /\ cancel = CancelIdle
  /\ pay = PayIdle
  /\ mutation = MutationIdle
  /\ floors = FloorsIdle(Null)
  /\ PagesIdle

----------------------------------------------------------------------------
(* Response bodies the backend may send to the authentication calls *)

RawUser(id, userId, email) ==
  [t |-> "object", id |-> id, user_id |-> userId, email |-> email]

UserOk == RawUser(Str("u1"), Undefined, Str("e1"))

UserByUserId == RawUser(Undefined, Str("u2"), Str("e1"))

UserNoId == RawUser(Undefined, Undefined, Str("e1"))

UserNoEmail == RawUser(Str("u1"), Undefined, Undefined)

AuthObj(user, zero, token, accessToken, data) ==
  [t |-> "object", user |-> user, zero |-> zero, token |-> token,
   access_token |-> accessToken, data |-> data]

\* an object holding nothing but the key "data"
Wrap(o) == AuthObj(Undefined, Undefined, Undefined, Undefined, o)

TokenFields == {Undefined, Str("undefined"), Str("null")} \cup {Str(tok) : tok \in Tokens}

AuthLeaves ==
  {AuthObj(u, z, tok, at, Undefined) :
     u \in {Undefined, UserOk, UserByUserId, UserNoId, UserNoEmail},
     z \in {Undefined, UserOk},
     tok \in TokenFields,
     at \in {Undefined, Str("t2")}}

\* {user, token}, {data: {user, token}}, {data: {data: {user, token}}}, {data: null}
AuthBodies ==
  AuthLeaves \cup {Wrap(o) : o \in AuthLeaves} \cup {Wrap(Wrap(o)) : o \in AuthLeaves}
    \cup {Wrap(Null)}

\* the bodies the interleaved session machine answers login and register
\* with: a user or none, a token, a placeholder or none, bare or under "data"
SessionAuthLeaves ==
  {AuthObj(u, Undefined, tok, Undefined, Undefined) :
     u \in {Undefined, UserOk, UserNoId},
     tok \in {Undefined, Str("undefined")} \cup {Str(tok) : tok \in Tokens}}

SessionAuthBodies == SessionAuthLeaves \cup {Wrap(o) : o \in SessionAuthLeaves}

RefreshBodies ==
  LET leaves == {AuthObj(Undefined, Undefined, tok, Undefined, Undefined) :
                   tok \in {Undefined, Null} \cup {Str(tok) : tok \in Tokens}}
  IN  leaves \cup {Wrap(o) : o \in leaves} \cup {Null}

\* a rejected request has no body the operations read
Bodies(outcome, bodies) == IF Rejected(outcome) THEN {Null} ELSE bodies

----------------------------------------------------------------------------
(* The session machine *)

Ops == {"login", "register", "logout", "refresh", "deleteProfile", "fetchUserBookings"}

ReqKinds == Ops \X BOOLEAN

InflightCount == BagCardinality(inflight)

\* the user snapshot a completed login of the model's user leaves
StoredUserOk == [id |-> "u1", email |-> "e1"]

Observe(step, op, outcome, authed, auth, stored, S, run) ==
  [step |-> step, op |-> op, outcome |-> outcome, authed |-> authed,
   auth |-> auth, stored |-> stored,
   raised |-> S.raised, redirects |-> S.redirects,
   retToken |-> S.retToken, retUser |-> S.retUser, run |-> run]

Current == Session(localToken, sessionToken, localUser, defaultAuth)

\* the storage an earlier visit left: a logged-out or a logged-in browser.
\* Nothing in the program writes sessionStorage["auth_token"] (it is only
\* read and removed), so that key is absent; the module loads on this storage
InitStorage ==
  /\ \E pair \in {<<NoVal, NoUser>>, <<"t1", StoredUserOk>>} :
       /\ localToken = pair[1]
       /\ localUser = pair[2]
  /\ sessionToken = NoVal

NoBookings == [outcome |-> "-", result |-> [raised |-> FALSE, current |-> <<>>, past |-> <<>>]]

Init ==
  /\ InitStorage
  /\ defaultAuth = hydrateAuthToken(localToken, sessionToken, NoVal)
  /\ inflight = EmptyBag
  /\ last = Observe("load", "-", "-", FALSE, NoVal, NoVal,
                    Session(NoVal, NoVal, NoUser, NoVal), 0)
  /\ authIn = Null
  /\ bookingsIn = Null
  /\ bookingsOut = NoBookings
  /\ bookingsPrev = NoBookings
  /\ now = 0
  /\ OrchIdle

\* the page is loaded again (a reload, or the navigation a redirect starts):
\* the module is evaluated on fresh defaults, pending continuations are gone
PageLoad ==
  /\ defaultAuth' = hydrateAuthToken(localToken, sessionToken, NoVal)
  /\ inflight' = EmptyBag
  /\ last' = Observe("load", "-", "-", FALSE, NoVal, NoVal,
                     Session(NoVal, NoVal, NoUser, NoVal), 0)
  /\ UNCHANGED <<localToken, sessionToken, localUser, authIn, bookingVars, orchVars>>

\* the synchronous first half of an operation: the request passes the
\* request interceptor and leaves
SendRequest ==
  \E op \in Ops :
    LET auth == requestInterceptor(op, localToken, sessionToken, defaultAuth)
    IN  /\ InflightCount < MaxInflight
        /\ inflight' = inflight (+) SetToBag({<<op, auth # NoVal>>})
        /\ last' = Observe("send", op, "-", auth # NoVal, auth,
                           OrStr(localToken, sessionToken),
                           Session(NoVal, NoVal, NoUser, NoVal), 0)
        /\ UNCHANGED <<storageVars, authIn, bookingVars, orchVars>>

\* consecutive 401 responses to credentialed requests other than login and
\* register, this one included
Run401(op, outcome, authed) ==
  IF outcome = "401" /\ authed /\ op \notin {"login", "register"}
  THEN (IF last.step = "response" THEN last.run ELSE 0) + 1
  ELSE 0

\* the continuation of an operation runs on the response and leaves S
Complete(op, outcome, authed, S) ==
  /\ BagIn(<<op, authed>>, inflight)
  /\ inflight' = inflight (-) SetToBag({<<op, authed>>})
  /\ localToken' = S.lt
  /\ sessionToken' = S.st
  /\ localUser' = S.lu
  /\ defaultAuth' = S.da
  /\ last' = Observe("response", op, outcome, authed, NoVal, NoVal, S,
                     Run401(op, outcome, authed))
  /\ UNCHANGED <<authIn, bookingVars, orchVars>>

LoginResponse ==
  \E authed \in BOOLEAN, outcome \in Outcomes :
    \E body \in Bodies(outcome, SessionAuthBodies) :
      Complete("login", outcome, authed, login(Current, outcome, body))

RegisterResponse ==
  \E authed \in BOOLEAN, outcome \in Outcomes :
    \E body \in Bodies(outcome, SessionAuthBodies) :
      Complete("register", outcome, authed, register(Current, outcome, body))

LogoutResponse ==
  \E authed \in BOOLEAN, outcome \in Outcomes :
    Complete("logout", outcome, authed, logout(Current, outcome))

RefreshResponse ==
  \E authed \in BOOLEAN, outcome \in Outcomes :
    \E body \in Bodies(outcome, RefreshBodies) :
      Complete("refresh", outcome, authed, refresh(Current, outcome, body))

DeleteProfileResponse ==
  \E authed \in BOOLEAN, outcome \in Outcomes :
    Complete("deleteProfile", outcome, authed, deleteProfile(Current, outcome))

FetchUserBookingsResponse ==
  \E authed \in BOOLEAN, outcome \in Outcomes :
    Complete("fetchUserBookings", outcome, authed,
             fetchUserBookingsSession(Current, outcome))

Next ==
  \/ PageLoad
  \/ SendRequest
  \/ LoginResponse
  \/ RegisterResponse
  \/ LogoutResponse
  \/ RefreshResponse
  \/ DeleteProfileResponse
  \/ FetchUserBookingsResponse

Spec == Init /\ [][Next]_vars

----------------------------------------------------------------------------
(* fetchUserBookings *)

RawBooking(id, status, start, end) ==
  [t |-> "object", id |-> id, status |-> status, start_time |-> start, end_time |-> end]

\* status strings the backend may send; "expired" is none the client knows
BackendStatuses ==
  {"pending", "confirmed", "active", "upcoming", "completed", "cancelled", "expired"}

StatusFields == {Undefined} \cup {Str(st) : st \in BackendStatuses}

\* lists of at most n bookings, the i-th with id "b<i>"
BookingId(i) == IF i = 1 THEN "b1" ELSE IF i = 2 THEN "b2" ELSE IF i = 3 THEN "b3" ELSE "b4"

\* bookings that carry their start and end time
BookingLists(n) ==
  UNION {{[i \in 1..k |-> RawBooking(Str(BookingId(i)), f[i], Str("s1"), Str("e1"))]
            : f \in [1..k -> StatusFields]}
           : k \in 0..n}

BookObj(current, past, bookings, data) ==
  [t |-> "object", current |-> current, past |-> past, bookings |-> bookings, data |-> data]

\* a flat list: the array itself, or the array under "data"
FlatBodies ==
  {Arr(l) : l \in BookingLists(MaxBookings)}
    \cup {BookObj(Undefined, Undefined, Undefined, Arr(l)) : l \in BookingLists(MaxBookings)}

\* a flat list under the key "bookings"
KeyedBodies ==
  {BookObj(Undefined, Undefined, Arr(l), Undefined) : l \in BookingLists(MaxBookings)}

\* a {current, past} pair, directly or under "data"
PairBodies ==
  LET pairs == {BookObj(Arr(c), Arr(p), Undefined, Undefined) :
                  c \in BookingLists(MaxBookings - 1), p \in BookingLists(MaxBookings - 1)}
  IN  pairs \cup {BookObj(Undefined, Undefined, Undefined, o) : o \in pairs}

\* payloads that are no booking listing: a list holding null, a bucket that
\* is no list
MalformedBodies ==
  LET ok == RawBooking(Str("b1"), Str("active"), Str("s1"), Str("e1"))
  IN  {Arr(<<Null>>), Arr(<<ok, Null>>),
       BookObj(Arr(<<Null>>), Arr(<<ok>>), Undefined, Undefined),
       BookObj(Arr(<<ok>>), Arr(<<ok, Null>>), Undefined, Undefined),
       BookObj(Undefined, Undefined, Undefined, BookObj(Arr(<<ok>>), Arr(<<Null>>), Undefined, Undefined)),
       BookObj(Str("oops"), Arr(<<ok>>), Undefined, Undefined),
       BookObj(Undefined, Undefined, Undefined, Null)}

BookingBodies ==
  FlatBodies \cup KeyedBodies \cup PairBodies \cup MalformedBodies \cup {Null, Str("oops")}

\* new Date().toISOString() at clock value n
toISOString(n) == IF n = 0 THEN "T0" ELSE IF n = 1 THEN "T1" ELSE IF n = 2 THEN "T2" ELSE "T3"

\* normalizeBooking: the id, the status as sent ("pending" when absent), and
\* the time window, a missing start or end being replaced by the time of the call
normalizeBooking(rawBooking, clock) ==
  [id     |-> StringOf(Or(Get(rawBooking, "id"), Str(""))),
   status |-> StringOf(Or(Get(rawBooking, "status"), Str("pending"))),
   start  |-> StringOf(Or(Get(rawBooking, "start_time"), Str(toISOString(clock)))),
   end    |-> StringOf(Or(Get(rawBooking, "end_time"), Str(toISOString(clock))))]

\* Array.isArray(v) ? v : []
ItemsOrEmpty(v) == IF v.t = "array" THEN v.items ELSE <<>>

MapNormalize(items, clock) == [i \in 1..Len(items) |-> normalizeBooking(items[i], clock)]

\* reading a property of a null or undefined element throws a TypeError
AnyThrows(items) == \E i \in 1..Len(items) : Throws(items[i])

IsCurrentStatus(b) == StringOf(Get(b, "status")) \in {"active", "upcoming", "confirmed", "pending"}

IsPastStatus(b) == StringOf(Get(b, "status")) \in {"completed", "cancelled"}

\* the first branch is taken when rawData && typeof rawData === 'object',
\* which an array satisfies
takesPairBranch(rawData) == Truthy(rawData) /\ IsObject(rawData)

\* the list the fallback branch partitions
fallbackArray(rawData) ==
  IF rawData.t = "array" THEN rawData.items
  ELSE IF Truthy(rawData) /\ IsObject(rawData)
  THEN (IF Get(rawData, "bookings").t = "array" THEN Get(rawData, "bookings").items
        ELSE IF Get(rawData, "data").t = "array" THEN Get(rawData, "data").items
        ELSE <<>>)
  ELSE <<>>

\* the try block of fetchUserBookings: threw tells that it did not complete
fetchUserBookingsTry(outcome, body, clock) ==
  LET rawData == extractData(body)
      thrown  == [threw |-> TRUE, current |-> <<>>, past |-> <<>>]
  IN  IF Rejected(outcome) THEN thrown
      ELSE IF takesPairBranch(rawData)
      THEN (IF AnyThrows(ItemsOrEmpty(Get(rawData, "current")))
               \/ AnyThrows(ItemsOrEmpty(Get(rawData, "past")))
            THEN thrown
            ELSE [threw   |-> FALSE,
                  current |-> MapNormalize(ItemsOrEmpty(Get(rawData, "current")), clock),
                  past    |-> MapNormalize(ItemsOrEmpty(Get(rawData, "past")), clock)])
      ELSE (IF AnyThrows(fallbackArray(rawData))
            THEN thrown
            ELSE [threw   |-> FALSE,
                  current |-> MapNormalize(SelectSeq(fallbackArray(rawData), IsCurrentStatus), clock),
                  past    |-> MapNormalize(SelectSeq(fallbackArray(rawData), IsPastStatus), clock)])

\* a faulty variant: a catch block that passes the error on
fetchUserBookingsRethrows(outcome, body, clock) ==
  LET try == fetchUserBookingsTry(outcome, body, clock)
  IN  [raised |-> try.threw, current |-> try.current, past |-> try.past]

\* fetchUserBookings: what it resolves with; the catch block logs the error
\* and returns two empty lists
fetchUserBookings(outcome, body, clock) ==
  LET try == fetchUserBookingsTry(outcome, body, clock)
  IN  IF try.threw
      THEN [raised |-> FALSE, current |-> <<>>, past |-> <<>>]
      ELSE [raised |-> FALSE, current |-> try.current, past |-> try.past]

\* a logged-in browser on the bookings page
InitBookings ==
  /\ localToken = "t1"
  /\ localUser = StoredUserOk
  /\ sessionToken = NoVal
  /\ defaultAuth = hydrateAuthToken(localToken, sessionToken, NoVal)
  /\ inflight = EmptyBag
  /\ last = Observe("load", "-", "-", FALSE, NoVal, NoVal,
                    Session(NoVal, NoVal, NoUser, NoVal), 0)
  /\ authIn = Null
  /\ bookingsIn \in BookingBodies
  /\ bookingsOut = NoBookings
  /\ bookingsPrev = NoBookings
  /\ now = 0
  /\ OrchIdle

\* time passes
Tick ==
  /\ now < MaxClock
  /\ now' = now + 1
  /\ UNCHANGED <<sessionVars, authIn, bookingsIn, bookingsOut, bookingsPrev, orchVars>>

\* one call of fetchUserBookings with nothing else running: the request is
\* sent, the backend answers (with the body bookingsIn when it answers 200),
\* the call resolves; prev is what is kept as the result of the call before
FetchUserBookingsStep(prev) ==
  \E outcome \in Outcomes :
      LET auth == requestInterceptor("fetchUserBookings", localToken, sessionToken, defaultAuth)
          S    == fetchUserBookingsSession(Current, outcome)
      IN  /\ bookingsIn' = bookingsIn
          /\ bookingsOut' = [outcome |-> outcome,
                             result |-> fetchUserBookings(outcome, bookingsIn, now)]
          /\ bookingsPrev' = prev
          /\ localToken' = S.lt
          /\ sessionToken' = S.st
          /\ localUser' = S.lu
          /\ defaultAuth' = S.da
          /\ last' = Observe("response", "fetchUserBookings", outcome, auth # NoVal,
                             NoVal, NoVal, S, 0)
          /\ UNCHANGED <<inflight, authIn, now, orchVars>>

FetchUserBookingsCall == FetchUserBookingsStep(bookingsPrev)

NextBookings ==
  \/ FetchUserBookingsCall
  \/ Tick

SpecBookings == InitBookings /\ [][NextBookings]_vars

----------------------------------------------------------------------------
(* fetchUserBookings called again on the same backend response *)

\* a booking with or without its status, its start time, its end time
TimedBookings ==
  {RawBooking(Str("b1"), st, start, end) :
     st \in {Undefined, Str("active")},
     start \in {Undefined, Str("s1")},
     end \in {Undefined, Str("e1")}}

\* a {current, past} pair of at most one booking each, directly or under "data"
TimedBodies ==
  LET lists == {<<>>} \cup {<<b>> : b \in TimedBookings}
      pairs == {BookObj(Arr(c), Arr(p), Undefined, Undefined) : c \in lists, p \in lists}
  IN  pairs \cup {BookObj(Undefined, Undefined, Undefined, o) : o \in pairs}

InitRepeat ==
  /\ localToken = "t1"
  /\ localUser = StoredUserOk
  /\ sessionToken = NoVal
  /\ defaultAuth = hydrateAuthToken(localToken, sessionToken, NoVal)
  /\ inflight = EmptyBag
  /\ last = Observe("load", "-", "-", FALSE, NoVal, NoVal,
                    Session(NoVal, NoVal, NoUser, NoVal), 0)
  /\ authIn = Null
  /\ bookingsIn \in TimedBodies
  /\ bookingsOut = NoBookings
  /\ bookingsPrev = NoBookings
  /\ now = 0
  /\ OrchIdle

\* a call of fetchUserBookings, the result of the call before being kept
FetchUserBookingsRepeat == FetchUserBookingsStep(bookingsOut)

NextRepeat ==
  \/ FetchUserBookingsRepeat
  \/ Tick

SpecRepeat == InitRepeat /\ [][NextRepeat]_vars

----------------------------------------------------------------------------
(* login and register on every response body, one call at a time *)

InitAuth ==
  /\ InitStorage
  /\ defaultAuth = hydrateAuthToken(localToken, sessionToken, NoVal)
  /\ inflight = EmptyBag
  /\ last = Observe("load", "-", "-", FALSE, NoVal, NoVal,
                    Session(NoVal, NoVal, NoUser, NoVal), 0)
  /\ authIn \in AuthBodies
  /\ bookingsIn = Null
  /\ bookingsOut = NoBookings
  /\ bookingsPrev = NoBookings
  /\ now = 0
  /\ OrchIdle

\* one call of an operation with nothing else running: the backend answers
\* (with the body authIn when it answers 200) and S is what the call leaves
Call(op, outcome, S) ==
  /\ authIn' = authIn
  /\ localToken' = S.lt
  /\ sessionToken' = S.st
  /\ localUser' = S.lu
  /\ defaultAuth' = S.da
  /\ last' = Observe("response", op, outcome,
                     requestInterceptor(op, localToken, sessionToken, defaultAuth) # NoVal,
                     NoVal, NoVal, S, 0)
  /\ UNCHANGED <<inflight, bookingVars, orchVars>>

LoginCall ==
  \E outcome \in Outcomes :
    Call("login", outcome, login(Current, outcome, authIn))

RegisterCall ==
  \E outcome \in Outcomes :
    Call("register", outcome, register(Current, outcome, authIn))

NextAuth ==
  \/ LoginCall
  \/ RegisterCall

SpecAuth == InitAuth /\ [][NextAuth]_vars

----------------------------------------------------------------------------
(* Booking operations: the session around them *)

\* the session after the response interceptor saw the outcome of a request
SessionAfter(outcome) ==
  LET S == responseInterceptor(Current, outcome)
  IN  /\ localToken' = S.lt
      /\ sessionToken' = S.st
      /\ localUser' = S.lu
      /\ defaultAuth' = S.da
      /\ UNCHANGED <<inflight, last>>

\* a logged-in browser with no authentication or listing call made
LoggedIn ==
  /\ localToken = "t1"
  /\ localUser = [id |-> "u1", email |-> "e1"]
  /\ sessionToken = NoVal
  /\ defaultAuth = hydrateAuthToken(localToken, sessionToken, NoVal)
  /\ inflight = EmptyBag
  /\ last = [step |-> "load", op |-> "-", outcome |-> "-", authed |-> FALSE,
             auth |-> NoVal, stored |-> NoVal, raised |-> FALSE, redirects |-> 0,
             retToken |-> NoVal, retUser |-> NoUser, run |-> 0]
  /\ authIn = Null
  /\ bookingsIn = Null
  /\ bookingsOut = [outcome |-> "-", result |-> [raised |-> FALSE, current |-> <<>>, past |-> <<>>]]
  /\ bookingsPrev = bookingsOut
  /\ now = 0

----------------------------------------------------------------------------
(* endBooking and the end-parking flow of the active-booking page *)

EndRaw(id, status, booking, data) ==
  [t |-> "object", id |-> id, status |-> status, booking |-> booking, data |-> data]

\* endBooking: where the booking is looked for in the response data
endBookingRawBooking(rawData) ==
  IF Truthy(rawData) /\ IsObject(rawData)
  THEN IF Truthy(Get(rawData, "id")) THEN rawData
       ELSE IF Truthy(Get(rawData, "booking")) THEN Get(rawData, "booking")
       ELSE IF Truthy(GetOpt(Get(rawData, "data"), "booking")) THEN GetOpt(Get(rawData, "data"), "booking")
       ELSE IF Truthy(GetOpt(Get(rawData, "data"), "id")) THEN Get(rawData, "data")
       ELSE Null
  ELSE Null

\* the booking endBooking returns: the status defaults to "completed"
endBookingNormalize(rawBooking) ==
  [id     |-> StringOf(Get(rawBooking, "id")),
   status |-> StringOf(Or(Get(rawBooking, "status"), Str("completed")))]

\* endBooking, from the arrival of the response on; rejection is the
\* AxiosError of a rejected request
endBooking(outcome, rejection, body) ==
  IF Rejected(outcome)
  THEN [raised |-> TRUE, error |-> Rethrow(rejection), booking |-> NoBooking]
  ELSE IF ~Truthy(endBookingRawBooking(extractData(body)))
  THEN [raised |-> TRUE, error |-> Rethrow(PlainError("Invalid response from server")),
        booking |-> NoBooking]
  ELSE [raised |-> FALSE, error |-> NoError,
        booking |-> endBookingNormalize(endBookingRawBooking(extractData(body)))]

\* handleEndParking, catch block: err?.response?.status === 400 || err?.status === 400
is400Error(err) == err.status = "400"

\* handleEndParking, catch block: the message the substring test reads
endErrorMessage(err) == OrStr(err.dataMessage, OrStr(err.message, ""))

isAlreadyCompleted(err) ==
  /\ is400Error(err)
  /\ \E needle \in {"already completed", "already ended", "already finished"} :
       LowerIncludes(endErrorMessage(err), needle)

\* bodies PUT /bookings/{id}/end may answer 200 with
EndLeaves ==
  {EndRaw(id, st, Undefined, Undefined) :
     id \in {Undefined, Str("b1")}, st \in {Undefined, Str("completed")}}

EndBodies ==
  EndLeaves
    \cup {EndRaw(Undefined, Undefined, o, Undefined) : o \in EndLeaves}
    \cup {EndRaw(Undefined, Undefined, Undefined, o) : o \in EndLeaves}
    \cup {EndRaw(Undefined, Undefined, Undefined, EndRaw(Undefined, Undefined, o, Undefined)) : o \in EndLeaves}
    \cup {Null}

InitEnd ==
  /\ LoggedIn
  /\ endFlow = EndIdle
  /\ cancel = CancelIdle
  /\ pay = PayIdle
  /\ mutation = MutationIdle
  /\ floors = FloorsIdle(Null)
  /\ PagesIdle

\* handleEndParking up to its await: the guard, the two state updates, the
\* PUT request
HandleEndParking ==
  /\ endFlow.pc # "sent"
  /\ ~endFlow.endingParking
  /\ ~endFlow.navigated
  /\ endFlow.requests < MaxClicks
  /\ endFlow' = [endFlow EXCEPT !.pc = "sent", !.endingParking = TRUE,
                                !.requests = @ + 1, !.error = NoVal]
  /\ UNCHANGED <<sessionVars, authIn, bookingVars, cancel, pay, mutation, floors, pageVars>>

\* handleEndParking from the await on: endBooking resolves or raises, and
\* the page navigates or shows the error
EndBookingResponse ==
  /\ endFlow.pc = "sent"
  /\ \E outcome \in BookingOutcomes :
       \E rejection \in (IF Rejected(outcome) THEN RejectionsOf(outcome) ELSE {NoError}),
          body \in Bodies(outcome, EndBodies) :
         LET r == endBooking(outcome, rejection, body)
         IN  /\ endFlow' =
                  IF ~r.raised
                  THEN [endFlow EXCEPT !.pc = "done", !.outcome = outcome,
                                       !.rejection = rejection, !.raised = FALSE,
                                       !.booking = r.booking, !.navigated = TRUE]
                  ELSE IF isAlreadyCompleted(r.error)
                  THEN [endFlow EXCEPT !.pc = "done", !.outcome = outcome,
                                       !.rejection = rejection, !.raised = TRUE,
                                       !.navigated = TRUE]
                  ELSE [endFlow EXCEPT !.pc = "done", !.outcome = outcome,
                                       !.rejection = rejection, !.raised = TRUE,
                                       !.error = OrStr(r.error.dataMessage,
                                                       OrStr(r.error.message,
                                                             "Failed to end parking. Please try again.")),
                                       !.endingParking = FALSE]
             /\ SessionAfter(outcome)
             /\ UNCHANGED <<authIn, bookingVars, cancel, pay, mutation, floors, pageVars>>

\* the statuses axios rejects a response with
ErrorStatuses == {"400", "401", "403", "404", "422", "500", "502", "503"}

\* the errors formatError may be handed: a rejected response (status, body
\* fields message and error, each possibly absent or empty), a request
\* without response (timeout, no connection, cancelled), a plain Error
FormatInputs ==
  {[isAxios |-> TRUE, status |-> st, code |-> "ERR_BAD_RESPONSE",
    dataMessage |-> m, dataError |-> e, message |-> msg] :
     st \in ErrorStatuses, m \in {NoVal, "", "Booking not found"},
     e \in {NoVal, "Bad request"}, msg \in {"", "axios: request failed"}}
    \cup {[isAxios |-> TRUE, status |-> NoVal, code |-> c,
           dataMessage |-> NoVal, dataError |-> NoVal, message |-> msg] :
            c \in {"ECONNABORTED", "ERR_NETWORK", "ERR_CANCELED"},
            msg \in {"", "axios: request failed"}}
    \cup {PlainError("Invalid response from server")}

\* an operation has caught the error endFlow.rejection
InitFormat ==
  /\ LoggedIn
  /\ \E error \in FormatInputs : endFlow = [EndIdle EXCEPT !.rejection = error]
  /\ cancel = CancelIdle
  /\ pay = PayIdle
  /\ mutation = MutationIdle
  /\ floors = FloorsIdle(Null)
  /\ PagesIdle

\* the catch block formats the error it caught
FormatError ==
  /\ endFlow.pc = "idle"
  /\ endFlow' = [endFlow EXCEPT !.pc = "formatted", !.raised = TRUE,
                                !.error = formatError(endFlow.rejection)]
  /\ UNCHANGED <<sessionVars, authIn, bookingVars, cancel, pay, mutation, floors, pageVars>>

NextFormat == FormatError

SpecFormat == InitFormat /\ [][NextFormat]_vars

NextEnd ==
  \/ HandleEndParking
  \/ EndBookingResponse

SpecEnd == InitEnd /\ [][NextEnd]_vars

----------------------------------------------------------------------------
(* fetchBookingById, releaseSlot and cancelBooking *)

\* a || b || ... || default over a sequence of values
FirstTruthy(values, default) ==
  IF \E i \in 1..Len(values) : Truthy(values[i])
  THEN values[CHOOSE i \in 1..Len(values) :
                /\ Truthy(values[i])
                /\ \A j \in 1..(i - 1) : ~Truthy(values[j])]
  ELSE default

\* an object holding an id: a nested garage, place, slot or spot
Ref(id) == [t |-> "object", id |-> Str(id)]

\* the fields of a raw booking that fetchBookingById reads for the id, the
\* garage, the slot and the status
LookupRaw(id, status, garage, garageId, placeId, slotId, spotId) ==
  [t |-> "object", id |-> id, status |-> status, garage |-> garage,
   garage_id |-> garageId, place_id |-> placeId,
   slot_id |-> slotId, parking_spot_id |-> spotId]

\* fetchBookingById: where the booking is looked for in the response data
fetchBookingByIdRawBooking(rawData) ==
  IF Truthy(rawData) /\ IsObject(rawData)
  THEN IF Truthy(Get(rawData, "id")) THEN rawData
       ELSE IF Truthy(Get(rawData, "booking")) /\ IsObject(Get(rawData, "booking"))
       THEN Get(rawData, "booking")
       ELSE IF Truthy(GetOpt(Get(rawData, "data"), "booking")) THEN GetOpt(Get(rawData, "data"), "booking")
       ELSE IF Truthy(GetOpt(Get(rawData, "data"), "id")) THEN Get(rawData, "data")
       ELSE Null
  ELSE Null

\* fetchBookingById: the normalized booking (id, garage, slot, status)
fetchBookingByIdNormalize(rawBooking) ==
  [id       |-> StringOf(Get(rawBooking, "id")),
   garageId |-> StringOf(FirstTruthy(<<GetOpt(Get(rawBooking, "garage"), "id"),
                                       GetOpt(Get(rawBooking, "place"), "id"),
                                       Get(rawBooking, "garage_id"),
                                       Get(rawBooking, "place_id"),
                                       Get(rawBooking, "garageId"),
                                       Get(rawBooking, "placeId")>>, Str(""))),
   slotId   |-> StringOf(FirstTruthy(<<GetOpt(Get(rawBooking, "parking_spot"), "id"),
                                       GetOpt(Get(rawBooking, "spot"), "id"),
                                       GetOpt(Get(rawBooking, "slot"), "id"),
                                       Get(rawBooking, "parking_spot_id"),
                                       Get(rawBooking, "spot_id"),
                                       Get(rawBooking, "slot_id"),
                                       Get(rawBooking, "slotId"),
                                       Get(rawBooking, "spotId"),
                                       Get(rawBooking, "parkingSpotId")>>, Str(""))),
   status   |-> StringOf(Or(Get(rawBooking, "status"), Str("pending")))]

\* the error the try block of fetchBookingById throws, NoError when it completes
fetchBookingByIdThrows(outcome, rejection, body) ==
  LET rawBooking == fetchBookingByIdRawBooking(extractData(body))
  IN  IF Rejected(outcome) THEN rejection
      ELSE IF ~Truthy(rawBooking) THEN PlainError("Booking not found")
      ELSE IF fetchBookingByIdNormalize(rawBooking).id = ""
      THEN PlainError("Invalid booking data: Missing ID")
      ELSE IF fetchBookingByIdNormalize(rawBooking).garageId = ""
      THEN PlainError("Invalid booking data: Missing garage ID")
      ELSE NoError

\* fetchBookingById (and fetchActiveBooking, which delegates to it), from
\* the arrival of the response on
fetchBookingById(outcome, rejection, body) ==
  IF fetchBookingByIdThrows(outcome, rejection, body) # NoError
  THEN [raised |-> TRUE, error |-> Rethrow(fetchBookingByIdThrows(outcome, rejection, body)),
        booking |-> NoLookup]
  ELSE [raised |-> FALSE, error |-> NoError,
        booking |-> fetchBookingByIdNormalize(fetchBookingByIdRawBooking(extractData(body)))]

\* releaseSlot, from the arrival of the response on
releaseSlot(outcome, rejection) ==
  IF Rejected(outcome)
  THEN [raised |-> TRUE, error |-> Rethrow(rejection)]
  ELSE [raised |-> FALSE, error |-> NoError]

\* the request of releaseSlot(placeId, slotId)
ReleaseRequest(placeId, slotId) == [kind |-> "release", garageId |-> placeId, slotId |-> slotId]

\* the request of fetchBookingById(id)
LookupRequest(id) == [kind |-> "lookup", id |-> id]

\* a faulty variant: a cancelBooking that releases whatever the lookup gave
cancelBookingReleasesAnyway(c, lookupOutcome, lookup) ==
  [c EXCEPT !.pc = "release", !.lookupOutcome = lookupOutcome,
            !.booking = lookup.booking,
            !.sent = Append(@, ReleaseRequest(lookup.booking.garageId, lookup.booking.slotId))]

\* cancelBooking after the lookup: its catch block rethrows what the
\* lookup raised, else releaseSlot is called with the ids of the booking
cancelBookingAfterLookup(c, lookupOutcome, lookup) ==
  IF lookup.raised
  THEN [c EXCEPT !.pc = "done", !.lookupOutcome = lookupOutcome, !.raised = TRUE,
                 !.error = formatError(lookup.error)]
  ELSE [c EXCEPT !.pc = "release", !.lookupOutcome = lookupOutcome,
                 !.booking = lookup.booking,
                 !.sent = Append(@, ReleaseRequest(lookup.booking.garageId, lookup.booking.slotId))]

\* cancelBooking after the release: { ...booking, status: "cancelled" }
cancelBookingAfterRelease(c, releaseOutcome, release) ==
  IF release.raised
  THEN [c EXCEPT !.pc = "done", !.releaseOutcome = releaseOutcome, !.raised = TRUE,
                 !.error = formatError(release.error)]
  ELSE [c EXCEPT !.pc = "done", !.releaseOutcome = releaseOutcome,
                 !.releasedBefore = TRUE,
                 !.result = [c.booking EXCEPT !.status = "cancelled"]]

\* bodies GET /bookings/{id} may answer 200 with
LookupStatuses == {"pending", "confirmed", "active", "completed", "cancelled"}

LookupLeaves ==
  {LookupRaw(Str("b1"), st, g[1], g[2], g[3], sl[1], sl[2]) :
     st \in {Undefined} \cup {Str(x) : x \in LookupStatuses},
     g \in {<<Undefined, Undefined, Undefined>>,
            <<Ref("g1"), Undefined, Undefined>>,
            <<Undefined, Str("g1"), Str("g2")>>,
            <<Undefined, Undefined, Str("g2")>>},
     sl \in {<<Undefined, Undefined>>, <<Str("s1"), Undefined>>, <<Str("s1"), Str("s2")>>}}

LookupBodies ==
  LookupLeaves
    \cup {[t |-> "object", booking |-> o] : o \in LookupLeaves}
    \cup {[t |-> "object", data |-> o] : o \in LookupLeaves}
    \cup {Null, [t |-> "object", booking |-> Str("b1")]}

InitCancel ==
  /\ LoggedIn
  /\ endFlow = EndIdle
  /\ cancel = CancelIdle
  /\ pay = PayIdle
  /\ mutation = MutationIdle
  /\ floors = FloorsIdle(Null)
  /\ PagesIdle

\* cancelBooking(id) up to its first await: the lookup request is sent
CancelBooking ==
  /\ cancel.pc \in {"idle", "done"}
  /\ cancel.calls < MaxCancels
  /\ cancel' = [CancelIdle EXCEPT !.pc = "lookup", !.calls = cancel.calls + 1,
                                  !.releasedBefore = cancel.releasedBefore,
                                  !.sent = <<LookupRequest("b1")>>]
  /\ UNCHANGED <<sessionVars, authIn, bookingVars, endFlow, pay, mutation, floors, pageVars>>

\* the lookup is answered
CancelLookupResponse ==
  /\ cancel.pc = "lookup"
  /\ \E outcome \in BookingOutcomes :
       \E rejection \in (IF Rejected(outcome) THEN RejectionsOf(outcome) ELSE {NoError}),
          body \in Bodies(outcome, LookupBodies) :
         /\ cancel' = cancelBookingAfterLookup(cancel, outcome,
                                               fetchBookingById(outcome, rejection, body))
         /\ SessionAfter(outcome)
         /\ UNCHANGED <<authIn, bookingVars, endFlow, pay, mutation, floors, pageVars>>

\* the release request is answered
CancelReleaseResponse ==
  /\ cancel.pc = "release"
  /\ \E outcome \in BookingOutcomes :
       \E rejection \in (IF Rejected(outcome) THEN RejectionsOf(outcome) ELSE {NoError}) :
         /\ cancel' = cancelBookingAfterRelease(cancel, outcome, releaseSlot(outcome, rejection))
         /\ SessionAfter(outcome)
         /\ UNCHANGED <<authIn, bookingVars, endFlow, pay, mutation, floors, pageVars>>

NextCancel ==
  \/ CancelBooking
  \/ CancelLookupResponse
  \/ CancelReleaseResponse

SpecCancel == InitCancel /\ [][NextCancel]_vars

----------------------------------------------------------------------------
(* The booking flow: home page, confirmation page, payment page *)

\* Number(v) for the values of the model
NumberOf(v) ==
  CASE v.t = "number" -> v.n
    [] v.t = "string" /\ v.s = "0" -> 0
    [] v.t = "string" /\ v.s = "1" -> 1
    [] v.t = "string" /\ v.s = "2" -> 2
    [] v.t = "string" /\ v.s = "3" -> 3
    [] v.t = "string" /\ v.s = "4" -> 4
    [] v.t = "string" /\ v.s = "5" -> 5
    [] v.t = "string" /\ v.s = "6" -> 6
    [] OTHER -> 0

\* the price fields of a raw slot
RawSlotPrice(pricePerHour, snakePrice, price) ==
  [t |-> "object", pricePerHour |-> pricePerHour, price_per_hour |-> snakePrice, price |-> price]

\* fetchParkingSlots: pricePerHour of the normalized slot
slotPricePerHour(slot) ==
  NumberOf(FirstTruthy(<<Get(slot, "pricePerHour"), Get(slot, "price_per_hour"),
                         Get(slot, "price")>>, Num(5)))

\* prices the backend may send for a slot: none, a number, a decimal string
RawSlotPrices ==
  {RawSlotPrice(Undefined, Undefined, Undefined),
   RawSlotPrice(Undefined, Num(0), Undefined),
   RawSlotPrice(Undefined, Num(3), Undefined),
   RawSlotPrice(Undefined, Undefined, Str("5")),
   RawSlotPrice(Undefined, Str("0"), Undefined)}

\* the options of the duration select of the home page
HomeDurations == {"1", "2", "3", "6"}

\* the options of the duration select of the confirmation page
ConfirmDurations == {"1", "2", "4", "6"}

\* the methods the payment page offers
methods == {"card", "wallet", "cash"}

\* plates the user may have typed on the payment page
Plates == {"", "AB", "AB12345"}

\* the data of the reserve response the confirmation page hands on as booking
ReserveRaw(id, totalPrice) == [t |-> "object", id |-> id, totalPrice |-> totalPrice]

ReserveBodies ==
  {ReserveRaw(Str("b1"), Undefined), ReserveRaw(Str("b1"), Num(7)), Null}

\* BookingConfirm: slot.pricePerHour * duration
confirmTotalPrice(rate, duration) == rate * duration

\* handlePayment: durationHours; the confirmation page hands on a number
paymentDurationHours(navDuration, booking) == navDuration

\* handlePayment: totalAmount
paymentTotalAmount(totalPrice, booking) ==
  IF totalPrice > 0 THEN Num(totalPrice) ELSE Get(booking, "totalPrice")

\* a faulty variant: a payment page that sends the method as selected
paymentMethodAsSelected(method) == method

\* handlePayment: paymentMethodValue
paymentMethodValue(method) == IF method = "card" THEN "credit_card" ELSE method

\* processPayment: backendPayload
backendPayload(payload) ==
  [parking_spot_id |-> payload.parkingSpotId,
   garage_id       |-> payload.garageId,
   user_id         |-> payload.userId,
   total_amount    |-> payload.totalAmount,
   duration_hours  |-> payload.durationHours,
   payment_method  |-> payload.paymentMethod,
   vehicle_plate   |-> payload.vehiclePlate]

\* handlePayment: paymentPayload
paymentPayload(p, method, plate, userId) ==
  [parkingSpotId |-> "s1",
   garageId      |-> "g1",
   userId        |-> userId,
   totalAmount   |-> paymentTotalAmount(p.navTotal, p.booking),
   durationHours |-> paymentDurationHours(p.navDuration, p.booking),
   paymentMethod |-> paymentMethodValue(method),
   vehiclePlate  |-> plate]

\* processPayment and reserveSlot, from the arrival of the response on
processPayment(outcome, rejection) ==
  IF Rejected(outcome)
  THEN [raised |-> TRUE, error |-> Rethrow(rejection)]
  ELSE [raised |-> FALSE, error |-> NoError]

reserveSlot(outcome, rejection) ==
  IF Rejected(outcome)
  THEN [raised |-> TRUE, error |-> Rethrow(rejection)]
  ELSE [raised |-> FALSE, error |-> NoError]

InitPay ==
  /\ LoggedIn
  /\ endFlow = EndIdle
  /\ cancel = CancelIdle
  /\ pay = PayIdle
  /\ mutation = MutationIdle
  /\ floors = FloorsIdle(Null)
  /\ PagesIdle

\* home page: the duration select is changed
HomeSelectDuration ==
  /\ pay.pc = "home"
  /\ \E d \in HomeDurations : pay' = [pay EXCEPT !.homeDuration = NumberOf(Str(d))]
  /\ UNCHANGED <<sessionVars, authIn, bookingVars, endFlow, cancel, mutation, floors, pageVars>>

\* home page, handleBookNow: a slot of the fetched list is selected and the
\* confirmation page opens with its form preset to the chosen duration
HandleBookNow ==
  /\ pay.pc = "home"
  /\ \E slot \in RawSlotPrices :
       pay' = [pay EXCEPT !.pc = "confirm", !.rate = slotPricePerHour(slot),
                          !.formDuration = pay.homeDuration]
  /\ UNCHANGED <<sessionVars, authIn, bookingVars, endFlow, cancel, mutation, floors, pageVars>>

\* confirmation page: the duration select is changed
ConfirmSelectDuration ==
  /\ pay.pc = "confirm"
  /\ \E d \in ConfirmDurations : pay' = [pay EXCEPT !.formDuration = NumberOf(Str(d))]
  /\ UNCHANGED <<sessionVars, authIn, bookingVars, endFlow, cancel, mutation, floors, pageVars>>

\* confirmation page, onSubmit up to its await: createBooking sends the
\* reserve request
OnSubmit ==
  /\ pay.pc = "confirm"
  /\ pay.reserveRequests < MaxPayClicks
  /\ pay' = [pay EXCEPT !.pc = "reserving", !.reserveRequests = @ + 1, !.status = NoVal]
  /\ UNCHANGED <<sessionVars, authIn, bookingVars, endFlow, cancel, mutation, floors, pageVars>>

\* confirmation page, onSubmit from the await on: the error is shown, or
\* the payment page opens with the booking, the total and the duration
ReserveResponse ==
  /\ pay.pc = "reserving"
  /\ \E outcome \in BookingOutcomes :
       \E rejection \in (IF Rejected(outcome) THEN RejectionsOf(outcome) ELSE {NoError}),
          body \in Bodies(outcome, ReserveBodies) :
         LET r == reserveSlot(outcome, rejection)
         IN  /\ pay' =
                  IF r.raised
                  THEN [pay EXCEPT !.pc = "confirm", !.status = formatError(r.error)]
                  ELSE [pay EXCEPT !.pc = "payment",
                                   !.booking = extractData(body),
                                   !.navTotal = confirmTotalPrice(pay.rate, pay.formDuration),
                                   !.navDuration = pay.formDuration]
             /\ SessionAfter(outcome)
             /\ UNCHANGED <<authIn, bookingVars, endFlow, cancel, mutation, floors, pageVars>>

\* payment page, handlePayment up to its await: the validations, then the
\* pay request leaves
HandlePayment ==
  /\ pay.pc = "payment"
  /\ pay.payRequests < MaxPayClicks
  /\ \E method \in methods, plate \in Plates :
       IF ~Truthy(pay.booking)
       THEN pay' = [pay EXCEPT !.method = method, !.status = "Missing booking data. Please try again."]
       ELSE IF ~TruthyStr(localUser.id)
       THEN pay' = [pay EXCEPT !.method = method, !.status = "User not logged in. Redirecting to login..."]
       ELSE IF plate = ""
       THEN pay' = [pay EXCEPT !.method = method, !.status = "Please enter your vehicle plate number."]
       ELSE IF plate = "AB"
       THEN pay' = [pay EXCEPT !.method = method, !.status = "Vehicle plate must be at least 3 characters."]
       ELSE pay' = [pay EXCEPT !.pc = "paying", !.method = method, !.status = NoVal,
                               !.payRequests = @ + 1,
                               !.request = backendPayload(paymentPayload(pay, method, plate, localUser.id))]
  /\ UNCHANGED <<sessionVars, authIn, bookingVars, endFlow, cancel, mutation, floors, pageVars>>

\* payment page, handlePayment from the await on
PaymentResponse ==
  /\ pay.pc = "paying"
  /\ \E outcome \in BookingOutcomes :
       \E rejection \in (IF Rejected(outcome) THEN RejectionsOf(outcome) ELSE {NoError}) :
         LET r == processPayment(outcome, rejection)
         IN  /\ pay' =
                  IF r.raised
                  THEN [pay EXCEPT !.pc = "payment", !.outcome = outcome,
                                   !.status = formatError(r.error)]
                  ELSE [pay EXCEPT !.pc = "done", !.outcome = outcome,
                                   !.status = "Payment successful! Redirecting..."]
             /\ SessionAfter(outcome)
             /\ UNCHANGED <<authIn, bookingVars, endFlow, cancel, mutation, floors, pageVars>>

NextPay ==
  \/ HomeSelectDuration
  \/ HandleBookNow
  \/ ConfirmSelectDuration
  \/ OnSubmit
  \/ ReserveResponse
  \/ HandlePayment
  \/ PaymentResponse

SpecPay == InitPay /\ [][NextPay]_vars

----------------------------------------------------------------------------
(* The mutating operations called directly: reserveSlot, releaseSlot,      *)
(* processPayment, endBooking                                              *)

MutatingOps == {"reserveSlot", "releaseSlot", "processPayment", "endBooking"}

\* what the call of op does with the response: it resolves or it raises
MutatingResult(op, outcome, rejection, body) ==
  CASE op = "reserveSlot" -> reserveSlot(outcome, rejection)
    [] op = "releaseSlot" -> releaseSlot(outcome, rejection)
    [] op = "processPayment" -> processPayment(outcome, rejection)
    [] op = "endBooking" -> [raised |-> endBooking(outcome, rejection, body).raised,
                             error  |-> endBooking(outcome, rejection, body).error]

\* a faulty variant: an operation that sends its request again after a
\* transport failure
afterMutationRetries(m, outcome, r) ==
  IF r.raised /\ outcome \in {"ERR_NETWORK", "ECONNABORTED"} /\ m.requests < 2
  THEN [m EXCEPT !.requests = @ + 1]
  ELSE [m EXCEPT !.pc = "done", !.outcome = outcome, !.raised = r.raised,
                 !.error = r.error.message]

\* the call after its one await: it returns, or its catch block throws
\* new Error(formatError(error)); nothing is sent again
afterMutation(m, outcome, r) ==
  [m EXCEPT !.pc = "done", !.outcome = outcome, !.raised = r.raised,
            !.error = r.error.message]

InitMutate ==
  /\ LoggedIn
  /\ endFlow = EndIdle
  /\ cancel = CancelIdle
  /\ pay = PayIdle
  /\ mutation = MutationIdle
  /\ floors = FloorsIdle(Null)
  /\ PagesIdle

\* a mutating operation is called: its request is sent
CallMutating ==
  /\ mutation.pc \in {"idle", "done"}
  /\ mutation.calls < MaxMutations
  /\ \E op \in MutatingOps :
       mutation' = [MutationIdle EXCEPT !.op = op, !.pc = "sent",
                                        !.calls = mutation.calls + 1, !.requests = 1]
  /\ UNCHANGED <<sessionVars, authIn, bookingVars, endFlow, cancel, pay, floors, pageVars>>

\* its request is answered
MutatingResponse ==
  /\ mutation.pc = "sent"
  /\ \E outcome \in BookingOutcomes :
       \E rejection \in (IF Rejected(outcome) THEN RejectionsOf(outcome) ELSE {NoError}),
          body \in Bodies(outcome, EndBodies) :
         /\ mutation' = afterMutation(mutation, outcome,
                                      MutatingResult(mutation.op, outcome, rejection, body))
         /\ SessionAfter(outcome)
         /\ UNCHANGED <<authIn, bookingVars, endFlow, cancel, pay, floors, pageVars>>

NextMutate ==
  \/ CallMutating
  \/ MutatingResponse

SpecMutate == InitMutate /\ [][NextMutate]_vars

----------------------------------------------------------------------------
(* fetchParkingSlots and fetchFloors *)

\* the fields of a raw slot that decide its status and its level
RawSlot(status, isBooked, isAvailable, level, floor) ==
  [t |-> "object", status |-> status, is_booked |-> isBooked,
   is_available |-> isAvailable, level |-> level, floor |-> floor]

\* String(status).toLowerCase(), for the status strings of the model
ToLowerCase(str) ==
  CASE str = "Available" -> "available"
    [] str = "Occupied" -> "occupied"
    [] str = "Reserved" -> "reserved"
    [] str = "Booked" -> "booked"
    [] OTHER -> str

\* a faulty variant: the boolean fields are consulted before the status string
slotStatusBooleansFirst(slot) ==
  IF Get(slot, "is_booked").t # "undefined"
  THEN (IF Truthy(Get(slot, "is_booked")) THEN "occupied" ELSE "available")
  ELSE IF Get(slot, "is_available").t # "undefined"
  THEN (IF Truthy(Get(slot, "is_available")) THEN "available" ELSE "occupied")
  ELSE IF ToLowerCase(StringOf(Get(slot, "status"))) = "reserved" THEN "reserved"
  ELSE IF ToLowerCase(StringOf(Get(slot, "status"))) \in {"occupied", "booked", "taken"}
  THEN "occupied"
  ELSE "available"

\* fetchParkingSlots: the status of the normalized slot
slotStatus(slot) ==
  IF Truthy(Get(slot, "status"))
  THEN LET statusLower == ToLowerCase(StringOf(Get(slot, "status")))
       IN  IF statusLower \in {"available", "free"} THEN "available"
           ELSE IF statusLower \in {"occupied", "booked", "taken"} THEN "occupied"
           ELSE IF statusLower = "reserved" THEN "reserved"
           ELSE "available"
  ELSE IF Get(slot, "is_booked").t # "undefined"
  THEN (IF Truthy(Get(slot, "is_booked")) THEN "occupied" ELSE "available")
  ELSE IF Get(slot, "is_available").t # "undefined"
  THEN (IF Truthy(Get(slot, "is_available")) THEN "available" ELSE "occupied")
  ELSE "available"

\* a ?? b ?? ... ?? default over a sequence of values
FirstNonNullish(values, default) ==
  IF \E i \in 1..Len(values) : ~Throws(values[i])
  THEN values[CHOOSE i \in 1..Len(values) :
                /\ ~Throws(values[i])
                /\ \A j \in 1..(i - 1) : Throws(values[j])]
  ELSE default

\* fetchParkingSlots: the level of the normalized slot
slotLevel(slot) ==
  NumberOf(FirstNonNullish(<<Get(slot, "level"), Get(slot, "floor"),
                             Get(slot, "floor_number"), Get(slot, "floor_id"),
                             Get(slot, "floor_level")>>, Num(0)))

\* fetchParkingSlots: the list the slots are read from
slotsArray(rawData) ==
  IF rawData.t = "array" THEN rawData.items
  ELSE IF Truthy(rawData) /\ IsObject(rawData)
  THEN (IF Get(rawData, "slots").t = "array" THEN Get(rawData, "slots").items
        ELSE IF Get(rawData, "data").t = "array" THEN Get(rawData, "data").items
        ELSE IF Get(rawData, "parking").t = "array" THEN Get(rawData, "parking").items
        ELSE IF Get(rawData, "parkingSlots").t = "array" THEN Get(rawData, "parkingSlots").items
        ELSE <<>>)
  ELSE <<>>

\* `slot-${index + 1}`
SlotName(i) ==
  CASE i = 1 -> "slot-1" [] i = 2 -> "slot-2" [] i = 3 -> "slot-3"
    [] i = 4 -> "slot-4" [] i = 5 -> "slot-5" [] OTHER -> "slot-6"

\* fetchParkingSlots: the id of the normalized slot; a slot without id is
\* named after its place in the list
slotId(slot, i) ==
  IF Truthy(Or(Get(slot, "id"), Get(slot, "slot_id")))
  THEN StringOf(Or(Get(slot, "id"), Get(slot, "slot_id")))
  ELSE SlotName(i)

\* fetchParkingSlots: the normalized slots
normalizedSlots(body) ==
  LET raw == slotsArray(extractData(body))
  IN  [i \in 1..Len(raw) |->
         [id |-> slotId(raw[i], i), status |-> slotStatus(raw[i]), level |-> slotLevel(raw[i])]]

\* fetchFloors: the keys of floorMap, in the order the forEach inserts them
RECURSIVE floorMapKeys(_)
floorMapKeys(slots) ==
  IF slots = <<>> THEN <<>>
  ELSE LET before == floorMapKeys(SubSeq(slots, 1, Len(slots) - 1))
           level  == slots[Len(slots)].level
       IN  IF \E i \in 1..Len(before) : before[i] = level
           THEN before
           ELSE Append(before, level)

\* distinct numbers in ascending order
RECURSIVE Ascending(_)
Ascending(keys) ==
  IF keys = <<>> THEN <<>>
  ELSE LET least == CHOOSE i \in 1..Len(keys) : \A j \in 1..Len(keys) : keys[i] <= keys[j]
       IN  <<keys[least]>> \o Ascending(SelectSeq(keys, LAMBDA k : k # keys[least]))

\* a faulty variant: floors left in the order their levels first appear
floorOrderAsInserted(keys) == keys

\* fetchFloors: .sort(([levelA], [levelB]) => levelA - levelB)
floorOrder(keys) == Ascending(keys)

\* fetchFloors: the floor of a level
Floor(level, floorSlots) ==
  [id             |-> <<"floor-", level>>,
   level          |-> level,
   totalSlots     |-> Len(floorSlots),
   availableSlots |-> Len(SelectSeq(floorSlots, LAMBDA sl : sl.status = "available")),
   layout         |-> floorSlots]

\* fetchFloors: the default floor of a garage without slots
GeneralParking ==
  [id |-> <<"general-parking">>, level |-> 0, totalSlots |-> 0, availableSlots |-> 0,
   layout |-> <<>>]

\* fetchFloors on the slots fetchParkingSlots returned
fetchFloors(slots) ==
  IF Len(slots) = 0
  THEN <<GeneralParking>>
  ELSE LET levels == floorOrder(floorMapKeys(slots))
       IN  [i \in 1..Len(levels) |->
              Floor(levels[i], SelectSeq(slots, LAMBDA sl : sl.level = levels[i]))]

\* raw slots the backend may list: the level absent, a number or a numeric
\* string; the status as a string or as the is_booked flag
RawSlots ==
  {RawSlot(st[1], st[2], Undefined, lv[1], lv[2]) :
     st \in {<<Str("available"), Undefined>>, <<Undefined, Bool(TRUE)>>},
     lv \in {<<Undefined, Undefined>>, <<Num(1), Undefined>>,
             <<Undefined, Str("2")>>, <<Num(-1), Num(1)>>}}

RawSlotLists(n) == UNION {[1..k -> RawSlots] : k \in 0..n}

\* the array itself, the array under "slots", or no data
SlotBodies ==
  {Arr(l) : l \in RawSlotLists(MaxSlots)}
    \cup {[t |-> "object", slots |-> Arr(l)] : l \in RawSlotLists(1)}
    \cup {Null}

InitFloors ==
  /\ LoggedIn
  /\ endFlow = EndIdle
  /\ cancel = CancelIdle
  /\ pay = PayIdle
  /\ mutation = MutationIdle
  /\ \E body \in SlotBodies : floors = FloorsIdle(body)
  /\ PagesIdle

\* one call of fetchFloors: GET /garages/{id}/parking is answered (with the
\* body floors.body when it is answered 200) and the floors are derived
FetchFloors ==
  /\ floors.pc = "idle"
  /\ \E outcome \in Outcomes :
       /\ floors' =
            IF Rejected(outcome)
            THEN [floors EXCEPT !.pc = "done", !.outcome = outcome, !.raised = TRUE]
            ELSE [floors EXCEPT !.pc = "done", !.outcome = outcome,
                                !.slots = normalizedSlots(floors.body),
                                !.result = fetchFloors(normalizedSlots(floors.body))]
       /\ SessionAfter(outcome)
       /\ UNCHANGED <<authIn, bookingVars, endFlow, cancel, pay, mutation, pageVars>>

NextFloors == FetchFloors

\* status strings a backend may send: recognized words in either case, a
\* word the client does not know, the empty string
SlotStatusValues ==
  {Undefined, Null, Str(""), Str("available"), Str("free"), Str("Occupied"), Str("booked"),
   Str("taken"), Str("reserved"), Str("Reserved"), Str("maintenance")}

SlotFlagValues == {Undefined, Null, Bool(TRUE), Bool(FALSE)}

\* one raw slot with every combination of the three status representations
StatusSlots ==
  {RawSlot(st, booked, avail, Undefined, Undefined) :
     st \in SlotStatusValues, booked \in SlotFlagValues, avail \in SlotFlagValues}

\* a garage whose listing holds one slot
InitSlots ==
  /\ LoggedIn
  /\ endFlow = EndIdle
  /\ cancel = CancelIdle
  /\ pay = PayIdle
  /\ mutation = MutationIdle
  /\ \E raw \in StatusSlots : floors = FloorsIdle(Arr(<<raw>>))
  /\ PagesIdle

SpecSlots == InitSlots /\ [][NextFloors]_vars

SpecFloors == InitFloors /\ [][NextFloors]_vars

----------------------------------------------------------------------------
(* The home page: selecting a garage, a slot, and booking *)

Garages == {"gA", "gB"}

\* what GET /garages/{id}/parking answers 200 with: each garage lists one
\* slot of its own
GarageListing(garageId) ==
  Arr(<<[t |-> "object", id |-> Str(IF garageId = "gA" THEN "a1" ELSE "b1"),
         status |-> Str("available")]>>)

\* requests for slot lists sent and not yet answered
Remove(seq, i) == SubSeq(seq, 1, i - 1) \o SubSeq(seq, i + 1, Len(seq))

InitHome ==
  /\ LoggedIn
  /\ endFlow = EndIdle
  /\ cancel = CancelIdle
  /\ pay = PayIdle
  /\ mutation = MutationIdle
  /\ floors = FloorsIdle(Null)
  /\ PagesIdle

\* handleGarageSelect up to its await: the selection is set, the slot and
\* the list are cleared, the request for the garage's slots is sent
HandleGarageSelect ==
  /\ home.nav = NoNav
  /\ home.selects < MaxSelects
  /\ \E garage \in Garages :
       home' = [home EXCEPT !.garage = garage, !.slot = NoSlot, !.slots = <<>>,
                            !.loadingSlots = TRUE, !.pending = Append(@, garage),
                            !.selects = @ + 1]
  /\ UNCHANGED <<sessionVars, authIn, bookingVars, endFlow, cancel, pay, mutation, floors,
                 bookingsPage>>

\* handleGarageSelect from its await on: the slots that arrived are shown
\* (none when the request was rejected), whichever garage is selected now
FetchParkingSlotsResponse ==
  /\ home.nav = NoNav
  /\ \E i \in 1..Len(home.pending), outcome \in Outcomes :
       /\ home' = [home EXCEPT !.pending = Remove(@, i),
                               !.slots = IF Rejected(outcome) THEN <<>>
                                         ELSE normalizedSlots(GarageListing(home.pending[i])),
                               !.loadingSlots = FALSE]
       /\ SessionAfter(outcome)
  /\ UNCHANGED <<authIn, bookingVars, endFlow, cancel, pay, mutation, floors, bookingsPage>>

\* a slot of the list shown is tapped
SelectSlot ==
  /\ home.nav = NoNav
  /\ ~home.loadingSlots
  /\ \E i \in 1..Len(home.slots) : home' = [home EXCEPT !.slot = home.slots[i]]
  /\ UNCHANGED <<sessionVars, authIn, bookingVars, endFlow, cancel, pay, mutation, floors,
                 bookingsPage>>

\* handleBookNow of the home page: with a garage and a slot selected the
\* page navigates to the confirmation page with their ids
HomeBookNow ==
  /\ home.nav = NoNav
  /\ home.garage # NoVal
  /\ home.slot # NoSlot
  /\ home' = [home EXCEPT !.nav = [garageId |-> home.garage, slotId |-> home.slot.id]]
  /\ UNCHANGED <<sessionVars, authIn, bookingVars, endFlow, cancel, pay, mutation, floors,
                 bookingsPage>>

NextHome ==
  \/ HandleGarageSelect
  \/ FetchParkingSlotsResponse
  \/ SelectSlot
  \/ HomeBookNow

SpecHome == InitHome /\ [][NextHome]_vars

----------------------------------------------------------------------------
(* The bookings page: loading the lists, cancelling a booking *)

\* listings of the backend: a {current, past} pair
PageListings ==
  {BookObj(Arr(c), Arr(p), Undefined, Undefined) :
     c \in BookingLists(MaxBookings - 1), p \in BookingLists(MaxBookings - 1)}

InitPage ==
  /\ LoggedIn
  /\ endFlow = EndIdle
  /\ cancel = CancelIdle
  /\ pay = PayIdle
  /\ mutation = MutationIdle
  /\ floors = FloorsIdle(Null)
  /\ home = HomeIdle
  /\ \E listing \in PageListings : bookingsPage = BookingsPageIdle(listing)

\* loadBookings up to its await: both lists are cleared, the request is sent
LoadBookings ==
  /\ bookingsPage.pc \in {"idle", "shown"}
  /\ bookingsPage.loads < MaxLoads
  /\ bookingsPage' = [bookingsPage EXCEPT !.pc = "loading", !.current = <<>>, !.past = <<>>,
                                           !.loads = @ + 1]
  /\ UNCHANGED <<sessionVars, authIn, bookingVars, endFlow, cancel, pay, mutation, floors,
                 home>>

\* loadBookings from its await on: the lists fetchUserBookings resolved
\* with are shown
LoadBookingsResponse ==
  /\ bookingsPage.pc = "loading"
  /\ \E outcome \in Outcomes :
       LET r == fetchUserBookings(outcome, bookingsPage.listing, now)
       IN  /\ bookingsPage' = [bookingsPage EXCEPT !.pc = "shown", !.outcome = outcome,
                                                    !.current = r.current, !.past = r.past]
           /\ SessionAfter(outcome)
  /\ UNCHANGED <<authIn, bookingVars, endFlow, cancel, pay, mutation, floors, home>>

\* handleCancel: the booking leaves the current list and joins the past
\* list as cancelled; no request is sent
HandleCancel ==
  /\ bookingsPage.pc = "shown"
  /\ \E i \in 1..Len(bookingsPage.current) :
       /\ bookingsPage.current[i].status \in {"upcoming", "confirmed", "active"}
       /\ bookingsPage' =
            [bookingsPage EXCEPT
               !.current = Remove(@, i),
               !.past = Append(@, [bookingsPage.current[i] EXCEPT !.status = "cancelled"]),
               !.cancelledHere = @ \cup {bookingsPage.current[i].id}]
  /\ UNCHANGED <<sessionVars, authIn, bookingVars, endFlow, cancel, pay, mutation, floors,
                 home>>

NextPage ==
  \/ LoadBookings
  \/ LoadBookingsResponse
  \/ HandleCancel

SpecPage == InitPage /\ [][NextPage]_vars

----------------------------------------------------------------------------
(* Properties of the session machine (checked under Spec) *)

\* nothing stored and no credential installed
Anonymous ==
  /\ localToken = NoVal
  /\ sessionToken = NoVal
  /\ localUser = NoUser
  /\ defaultAuth = NoVal

\* the last step was the continuation of op on a response
Responded(op) == last.step = "response" /\ last.op = op

\* C1: after a response with status 401 has been processed, whichever
\* operation sent the request, no auth token is left in localStorage or
\* sessionStorage, no user snapshot is left, the redirect to the login page
\* was signalled exactly once for that response, and the operations that
\* report errors (login, register, refresh, deleteProfile) raised it.
C1_Reset401 ==
  (last.step = "response" /\ last.outcome = "401") =>
    /\ localToken = NoVal
    /\ sessionToken = NoVal
    /\ localUser = NoUser
    /\ last.redirects = 1
    /\ (last.op \in {"login", "register", "refresh", "deleteProfile"} => last.raised)

\* a 401 answered a login request that had left with a credential
C1_Witness ==
  /\ Responded("login")
  /\ last.outcome = "401"
  /\ last.authed
  /\ last.redirects = 1
  /\ localUser = NoUser

\* C2: when two credentialed requests that were in flight together have
\* both been answered with 401, the session is Anonymous: nothing is stored
\* and no credential is installed any more.
C2_Concurrent401Anonymous ==
  (last.step = "response" /\ last.run >= 2) => Anonymous

C4_CarriesStoredToken ==
  last.step = "send" =>
    /\ (last.stored \notin {NoVal, "", "undefined", "null"} => last.auth = last.stored)
    /\ (last.stored \in {NoVal, ""} => last.auth = NoVal)

----------------------------------------------------------------------------
(* Properties of login and register on every response body (SpecAuth) *)

\* the objects on the "data" path of a response body, the body first
DataPath(body) ==
  LET l1 == body
      l2 == IF l1.t = "object" THEN l1.data ELSE Undefined
      l3 == IF l2.t = "object" THEN l2.data ELSE Undefined
  IN  {l \in {l1, l2, l3} : l.t = "object"}

\* the token strings a response body holds under token or access_token
TokensOf(body) ==
  {f.s : f \in {v \in UNION {{l.token, l.access_token} : l \in DataPath(body)} :
                  v.t = "string"}}

\* the user objects a response body holds under user or at index 0
UsersOf(body) ==
  {u \in UNION {{l.user, l.zero} : l \in DataPath(body)} : u.t = "object"}

\* C5: login ends in one of two states.  When it resolves, the returned
\* token is usable and stored, the returned user has an id and an email
\* and is stored, and the token is the default credential.  When it
\* raises, no token, no user snapshot and no default credential are left.
\* It raises on every failure: a rejected request, a response with no user
\* object, with no user that has an id and an email, or with no token
\* other than the placeholders "undefined" and "null".
C5_LoginTwoStates ==
  Responded("login") =>
    /\ last.raised =>
         /\ localToken = NoVal
         /\ sessionToken = NoVal
         /\ localUser = NoUser
         /\ defaultAuth = NoVal
    /\ ~last.raised =>
         /\ last.retToken \in TokensOf(authIn) \ {"", "undefined", "null"}
         /\ localToken = last.retToken
         /\ defaultAuth = last.retToken
         /\ last.retUser.id \notin {NoVal, ""}
         /\ last.retUser.email \notin {NoVal, ""}
         /\ localUser = last.retUser
    /\ Rejected(last.outcome) => last.raised
    /\ UsersOf(authIn) = {} => last.raised
    /\ (\A u \in UsersOf(authIn) :
          ~Truthy(Or(u.id, u.user_id)) \/ ~Truthy(u.email)) => last.raised
    /\ TokensOf(authIn) \subseteq {"", "undefined", "null"} => last.raised

\* login failed on a placeholder token while a session was stored
C5_Witness ==
  /\ Responded("login")
  /\ last.outcome = "200"
  /\ last.raised
  /\ last.authed
  /\ UsersOf(authIn) # {}
  /\ "undefined" \in TokensOf(authIn)

\* C6 as stated: register resolves only with a user and a usable token,
\* and then the token and the user are stored and the credential installed.
C6_RegisterNeedsToken ==
  (Responded("register") /\ ~last.raised) =>
    /\ localToken \in TokensOf(authIn) \ {"", "undefined", "null"}
    /\ localUser = last.retUser
    /\ defaultAuth = localToken

\* C6 as amended: register raises exactly when the request is rejected or
\* the response yields no user; a missing or placeholder token is no
\* failure.  When it resolves with a usable token, the token and the
\* returned user are stored and the token is the default credential; when
\* it resolves without one, stored token, stored user and default
\* credential are unchanged.  When it raises, they are unchanged too,
\* except that after a 401 the response interceptor has removed the stored
\* token and user.
C6_RegisterTokenOptional ==
  [][(last'.step = "response" /\ last'.op = "register") =>
       LET d     == extractData(authIn')
           noUsr == Throws(d) \/ registerRawUser(d).t = "null"
           tok   == IF noUsr THEN NoVal ELSE registerToken(d)
       IN  /\ last'.raised <=> (Rejected(last'.outcome) \/ noUsr)
           /\ (last'.raised /\ last'.outcome # "401") => UNCHANGED storageVars
           /\ (last'.raised /\ last'.outcome = "401") =>
                /\ localToken' = NoVal
                /\ localUser' = NoUser
                /\ defaultAuth' = defaultAuth
           /\ (~last'.raised /\ tok \notin {NoVal, "", "undefined", "null"}) =>
                /\ localToken' = tok
                /\ localUser' = last'.retUser
                /\ defaultAuth' = tok
           /\ (~last'.raised /\ tok \in {NoVal, "", "undefined", "null"}) =>
                UNCHANGED storageVars
    ]_vars

\* register resolved with a user and no token, and nothing was stored
C6_Witness ==
  /\ Responded("register")
  /\ last.outcome = "200"
  /\ ~last.raised
  /\ last.retUser.id = "u1"
  /\ TokensOf(authIn) = {}
  /\ localToken = NoVal
  /\ localUser = NoUser

----------------------------------------------------------------------------
(* logout, hydration and deleteProfile (checked under Spec) *)

\* C7: logout never raises, and when it completes the stored token (in
\* localStorage and in sessionStorage), the stored user and the default
\* credential are cleared, whatever the outcome of the server call.
C7_LogoutClears ==
  Responded("logout") =>
    /\ ~last.raised
    /\ localToken = NoVal
    /\ sessionToken = NoVal
    /\ localUser = NoUser
    /\ defaultAuth = NoVal

\* a logout whose request carried a credential timed out
C7_Witness ==
  /\ Responded("logout")
  /\ last.outcome = "ECONNABORTED"
  /\ last.authed
  /\ defaultAuth = NoVal

\* C8: right after the module is loaded a default credential is installed
\* if and only if a token is stored that is neither "undefined" nor "null",
\* and it is that token; hydrating a state with no stored token changes
\* nothing; hydrating a hydrated state changes nothing.
C8_Hydration ==
  LET stored == OrStr(localToken, sessionToken)
  IN  /\ last.step = "load" =>
           /\ defaultAuth # NoVal <=> stored \notin {NoVal, "", "undefined", "null"}
           /\ defaultAuth # NoVal => defaultAuth = stored
      /\ stored \in {NoVal, ""} =>
           hydrateAuthToken(localToken, sessionToken, defaultAuth) = defaultAuth
      /\ hydrateAuthToken(localToken, sessionToken,
                          hydrateAuthToken(localToken, sessionToken, defaultAuth))
           = hydrateAuthToken(localToken, sessionToken, defaultAuth)

\* the module was loaded on a stored placeholder and installed nothing
C8_Witness ==
  /\ last.step = "load"
  /\ localToken \in {"undefined", "null"}
  /\ defaultAuth = NoVal

\* C9 as stated: a deleteProfile that resolves has removed the stored
\* token, the stored user and the default credential; one that raises has
\* left all three unchanged.
C9_DeleteAllOrNothing ==
  [][(last'.step = "response" /\ last'.op = "deleteProfile") =>
       IF last'.raised
       THEN UNCHANGED storageVars
       ELSE Anonymous'
    ]_vars

\* C9 as amended: deleteProfile raises exactly when its request is
\* rejected.  When it resolves, the stored token, the stored user and the
\* default credential are removed together.  When it raises on anything
\* but a 401, all three are unchanged; when it raises on a 401, the
\* response interceptor has removed the stored token and user, and the
\* default credential is unchanged.
C9_DeleteProfileUnit ==
  [][(last'.step = "response" /\ last'.op = "deleteProfile") =>
       /\ last'.raised <=> Rejected(last'.outcome)
       /\ ~last'.raised => Anonymous'
       /\ (last'.raised /\ last'.outcome # "401") => UNCHANGED storageVars
       /\ (last'.raised /\ last'.outcome = "401") =>
            /\ localToken' = NoVal
            /\ sessionToken' = NoVal
            /\ localUser' = NoUser
            /\ defaultAuth' = defaultAuth
    ]_vars

\* a deleteProfile failed on a server error and the session is still stored
C9_Witness ==
  /\ Responded("deleteProfile")
  /\ last.outcome = "500"
  /\ last.raised
  /\ localToken \in Tokens
  /\ localUser # NoUser
  /\ defaultAuth = localToken

----------------------------------------------------------------------------
(* fetchUserBookings (checked under SpecBookings) *)

\* the flat list of a response body: the array itself or the array under "data"
FlatList(body) ==
  IF body.t = "array" THEN body.items
  ELSE IF body.t = "object" /\ body.data.t = "array" THEN body.data.items
  ELSE <<>>

IsFlat(body) == body.t = "array" \/ (body.t = "object" /\ body.data.t = "array")

HasStatus(b, statuses) ==
  /\ b.t = "object"
  /\ Get(b, "status").t = "string"
  /\ Get(b, "status").s \in statuses

\* C10: when GET /bookings answers with a flat list, every booking of the
\* list with status pending, confirmed, active or upcoming is returned in
\* current and every booking with status completed or cancelled in past.
C10_FlatListPartitioned ==
  (bookingsOut.outcome = "200" /\ IsFlat(bookingsIn)) =>
    /\ \A i \in 1..Len(FlatList(bookingsIn)) :
         HasStatus(FlatList(bookingsIn)[i], {"pending", "confirmed", "active", "upcoming"}) =>
           \E j \in 1..Len(bookingsOut.result.current) :
             bookingsOut.result.current[j].id = FlatList(bookingsIn)[i].id.s
    /\ \A i \in 1..Len(FlatList(bookingsIn)) :
         HasStatus(FlatList(bookingsIn)[i], {"completed", "cancelled"}) =>
           \E j \in 1..Len(bookingsOut.result.past) :
             bookingsOut.result.past[j].id = FlatList(bookingsIn)[i].id.s

\* a response body that is no listing the client can parse: neither an
\* object nor a list, or a list that holds null
Malformed(body) ==
  LET d == IF body.t = "object" /\ body.data.t # "undefined" THEN body.data ELSE body
  IN  \/ d.t \notin {"object", "array"}
      \/ d.t = "array" /\ \E i \in 1..Len(d.items) : d.items[i].t = "null"
      \/ d.t = "object" /\ \E k \in {"current", "past"} :
           d[k].t = "array" /\ \E i \in 1..Len(d[k].items) : d[k].items[i].t = "null"

\* C11: fetchUserBookings never raises, and whenever its request fails
\* (network error, timeout, HTTP error status) or the response is
\* malformed it resolves with current = [] and past = [].
C11_NeverRaises ==
  bookingsOut.outcome # "-" =>
    /\ ~bookingsOut.result.raised
    /\ (Rejected(bookingsOut.outcome) \/ Malformed(bookingsIn)) =>
         /\ bookingsOut.result.current = <<>>
         /\ bookingsOut.result.past = <<>>

\* a 200 response whose current list holds null next to a well-formed past
\* list was answered with two empty lists
C11_Witness ==
  /\ bookingsOut.outcome = "200"
  /\ bookingsIn.t = "object"
  /\ bookingsIn.current.t = "array"
  /\ bookingsIn.past.t = "array"
  /\ Len(bookingsIn.past.items) > 0
  /\ Malformed(bookingsIn)
  /\ ~bookingsOut.result.raised
  /\ bookingsOut.result.past = <<>>

\* C12: two calls of fetchUserBookings that both get the same 200 response
\* resolve with the same current and past lists, field for field.
C12_Idempotent ==
  (bookingsPrev.outcome = "200" /\ bookingsOut.outcome = "200") =>
    bookingsOut.result = bookingsPrev.result

----------------------------------------------------------------------------
(* The end-parking flow (checked under SpecEnd) *)

\* C13: when the backend answers the end request with status 400 and a
\* message containing "already completed", the end-parking flow goes on to
\* the bookings list and shows no error.
C13_AlreadyCompletedIsSuccess ==
  (/\ endFlow.pc = "done"
   /\ endFlow.outcome = "400"
   /\ LowerIncludes(endFlow.rejection.dataMessage, "already completed")) =>
    /\ endFlow.navigated
    /\ endFlow.error = NoVal

----------------------------------------------------------------------------
(* cancelBooking (checked under SpecCancel) *)

\* the requests of the current call of cancelBooking that release a slot
ReleasesSent == SelectSeq(cancel.sent, LAMBDA r : r.kind = "release")

\* C14: cancelBooking works in order.  Its first request is the lookup; a
\* release request is sent only after the lookup has succeeded, at most
\* once, and for the garageId and slotId of the looked-up booking; when
\* the lookup fails none is sent and the call raises; the call resolves
\* only after the release has succeeded, with the looked-up booking whose
\* status is cancelled and whose other fields are unchanged.
C14_CancelInOrder ==
  cancel.pc # "idle" =>
    /\ cancel.sent[1] = LookupRequest("b1")
    /\ Len(ReleasesSent) <= 1
    /\ cancel.pc = "lookup" => Len(cancel.sent) = 1
    /\ Len(ReleasesSent) = 1 =>
         /\ cancel.lookupOutcome = "200"
         /\ cancel.booking # NoLookup
         /\ cancel.sent = <<LookupRequest("b1"),
                            ReleaseRequest(cancel.booking.garageId, cancel.booking.slotId)>>
    /\ (cancel.pc = "done" /\ cancel.booking = NoLookup) =>
         /\ Len(ReleasesSent) = 0
         /\ cancel.raised
    /\ (cancel.pc = "done" /\ ~cancel.raised) =>
         /\ cancel.releaseOutcome = "200"
         /\ Len(ReleasesSent) = 1
         /\ cancel.result.status = "cancelled"
         /\ cancel.result.id = cancel.booking.id
         /\ cancel.result.garageId = cancel.booking.garageId
         /\ cancel.result.slotId = cancel.booking.slotId
    /\ cancel.pc # "done" => cancel.result = NoLookup

\* a lookup that found no garage id ended the call with no release sent
C14_Witness ==
  /\ cancel.pc = "done"
  /\ cancel.lookupOutcome = "200"
  /\ cancel.raised
  /\ cancel.error = "Invalid booking data: Missing garage ID"
  /\ Len(ReleasesSent) = 0

\* C15: when the slot has been released before and the backend rejects the
\* release request with a client error, cancelBooking still resolves with
\* the booking in status cancelled.
C15_DoubleReleaseTolerated ==
  (/\ cancel.pc = "done"
   /\ cancel.releasedBefore
   /\ cancel.calls >= 2
   /\ cancel.releaseOutcome \in {"400", "404"}) =>
    /\ ~cancel.raised
    /\ cancel.result.status = "cancelled"

\* C16: for a booking whose looked-up status is completed or cancelled,
\* cancelBooking sends no release request and does not resolve with the
\* booking in status cancelled as the outcome of this call.
C16_CancelOnlyFromLive ==
  (cancel.pc # "idle" /\ cancel.booking.status \in {"completed", "cancelled"}) =>
    /\ Len(ReleasesSent) = 0
    /\ ~(cancel.pc = "done" /\ ~cancel.raised)

----------------------------------------------------------------------------
(* The pay request (checked under SpecPay) *)

\* a pay request has just been sent
PaySent == pay.pc = "paying"

C18_TotalIsRateTimesDuration ==
  PaySent =>
    /\ pay.request.duration_hours >= 1
    /\ pay.request.total_amount = Num(pay.rate * pay.request.duration_hours)

----------------------------------------------------------------------------
(* The mutating operations (checked under SpecMutate) *)

\* C19: a call of reserveSlot, releaseSlot, processPayment or endBooking
\* sends one request and no more; when that request fails (network error,
\* timeout or HTTP error) the call ends there, raising the failure.
C19_SingleShot ==
  mutation.pc # "idle" =>
    /\ mutation.requests = 1
    /\ (mutation.pc = "done" /\ Rejected(mutation.outcome)) =>
         /\ mutation.raised
         /\ mutation.error # NoVal
    /\ (mutation.pc = "done" /\ ~mutation.raised) => mutation.outcome = "200"

\* a processPayment whose request timed out raised after its one request
C19_Witness ==
  /\ mutation.pc = "done"
  /\ mutation.op = "processPayment"
  /\ mutation.outcome = "ECONNABORTED"
  /\ mutation.raised
  /\ mutation.error = "Request timeout. Please try again"
  /\ mutation.requests = 1

----------------------------------------------------------------------------
(* fetchFloors (checked under SpecFloors) *)

\* the places in the slot list of the slots at a level
SlotsAt(level) == {j \in 1..Len(floors.slots) : floors.slots[j].level = level}

\* the places in the layout of floor i that hold slot j
PlacesOf(i, j) ==
  {k \in 1..Len(floors.result[i].layout) : floors.result[i].layout[k] = floors.slots[j]}

----------------------------------------------------------------------------
(* Slot status resolution (checked under SpecSlots) *)

\* the one raw slot of the listing and its normalized status
TheRawSlot == floors.body.items[1]

TheSlotStatus == floors.slots[1].status

SlotNormalized == floors.pc = "done" /\ ~floors.raised /\ Len(floors.slots) = 1

\* the payload carries a status string (the empty string counts as none)
HasStatusString(raw) == raw.status.t = "string" /\ raw.status.s # ""

\* what a status string says, whatever its case
StatusWord(raw) ==
  IF raw.status.s \in {"available", "free"} THEN "available"
  ELSE IF raw.status.s \in {"Occupied", "occupied", "booked", "taken"} THEN "occupied"
  ELSE IF raw.status.s \in {"reserved", "Reserved"} THEN "reserved"
  ELSE "unrecognized"

IsFlag(v, b) == v.t = "boolean" /\ v.b = b

\* C21 as stated: without a status string is_booked = true gives occupied
\* and is_available = false gives occupied; "reserved" gives reserved
\* whatever the booleans; with a status string the booleans play no part;
\* the result is one of available, occupied, reserved.
C21_StatusResolution ==
  SlotNormalized =>
    /\ TheSlotStatus \in {"available", "occupied", "reserved"}
    /\ (~HasStatusString(TheRawSlot) /\ IsFlag(TheRawSlot.is_booked, TRUE))
         => TheSlotStatus = "occupied"
    /\ (~HasStatusString(TheRawSlot) /\ IsFlag(TheRawSlot.is_available, FALSE))
         => TheSlotStatus = "occupied"
    /\ (HasStatusString(TheRawSlot) /\ StatusWord(TheRawSlot) = "reserved")
         => TheSlotStatus = "reserved"
    /\ HasStatusString(TheRawSlot)
         => TheSlotStatus = IF StatusWord(TheRawSlot) = "unrecognized"
                            THEN "available" ELSE StatusWord(TheRawSlot)

\* C21 amended: is_available = false gives occupied when the payload has
\* neither a status string nor an is_booked field; the rest as stated.
C21_StatusResolutionByPriority ==
  SlotNormalized =>
    /\ TheSlotStatus \in {"available", "occupied", "reserved"}
    /\ (~HasStatusString(TheRawSlot) /\ IsFlag(TheRawSlot.is_booked, TRUE))
         => TheSlotStatus = "occupied"
    /\ (/\ ~HasStatusString(TheRawSlot)
        /\ TheRawSlot.is_booked.t = "undefined"
        /\ IsFlag(TheRawSlot.is_available, FALSE))
         => TheSlotStatus = "occupied"
    /\ (HasStatusString(TheRawSlot) /\ StatusWord(TheRawSlot) = "reserved")
         => TheSlotStatus = "reserved"
    /\ HasStatusString(TheRawSlot)
         => TheSlotStatus = IF StatusWord(TheRawSlot) = "unrecognized"
                            THEN "available" ELSE StatusWord(TheRawSlot)

\* a slot sent with is_available = false, without status and without
\* is_booked, was normalized to occupied
C21_Witness ==
  /\ SlotNormalized
  /\ ~HasStatusString(TheRawSlot)
  /\ TheRawSlot.is_booked.t = "undefined"
  /\ IsFlag(TheRawSlot.is_available, FALSE)
  /\ TheSlotStatus = "occupied"

\* C30: a payload with a status string that is no recognized word and
\* with is_booked = true or is_available = false is not normalized to
\* available.
C30_UnrecognizedKeepsBooleans ==
  (/\ SlotNormalized
   /\ HasStatusString(TheRawSlot)
   /\ StatusWord(TheRawSlot) = "unrecognized"
   /\ (IsFlag(TheRawSlot.is_booked, TRUE) \/ IsFlag(TheRawSlot.is_available, FALSE)))
    => TheSlotStatus # "available"

----------------------------------------------------------------------------
(* Identity and status of returned entities *)

\* an id that identifies nothing: empty, or a missing value turned into text
NoIdentity == {NoVal, "", "undefined", "null"}

\* C22 (checked under SpecAuth): login and register never return a user,
\* and fetchBookingById never returns a booking, whose id is empty or a
\* stringified missing value; login never returns a user without email.
C22_IdentityResolved ==
  /\ (Responded("login") /\ ~last.raised) =>
       /\ last.retUser.id \notin NoIdentity
       /\ last.retUser.email \notin {NoVal, ""}
  /\ (Responded("register") /\ ~last.raised) => last.retUser.id \notin NoIdentity
  /\ (cancel.pc = "release" \/ (cancel.pc = "done" /\ ~cancel.raised)) =>
       cancel.booking.id \notin NoIdentity

\* the statuses of the data model
BookingStatuses == {"pending", "confirmed", "active", "completed", "cancelled"}

\* C23 (checked under SpecBookings): every booking fetchUserBookings
\* returns has a status of the data model, whatever status string the
\* backend sent.
C23_StatusInEnum ==
  bookingsOut.outcome = "200" =>
    /\ \A i \in 1..Len(bookingsOut.result.current) :
         bookingsOut.result.current[i].status \in BookingStatuses
    /\ \A i \in 1..Len(bookingsOut.result.past) :
         bookingsOut.result.past[i].status \in BookingStatuses

----------------------------------------------------------------------------
(* formatError (checked under SpecFormat) *)

\* a field of the error that is there and not empty
Present(v) == v # NoVal /\ v # ""

\* the canned message of a status
StatusMessage(status) ==
  CASE status = "404" -> "Resource not found"
    [] status = "403" -> "Access forbidden"
    [] status = "401" -> "Unauthorized. Please login again"
    [] status = "500" -> "Server error. Please try again later"
    [] status \in {"400", "422"} -> "Invalid request"
    [] status \in {"502", "503"} -> "Server error"

\* C24: for the error of a request, formatError returns the backend's
\* message field if present, else the backend's error field, else the
\* message of the status table, else the message of the transport code
\* (timeout, connectivity), else a generic message.
C24_FormatErrorPriority ==
  (endFlow.pc = "formatted" /\ endFlow.rejection.isAxios) =>
    LET e == endFlow.rejection
    IN  endFlow.error =
          IF Present(e.dataMessage) THEN e.dataMessage
          ELSE IF Present(e.dataError) THEN e.dataError
          ELSE IF Present(e.status) THEN StatusMessage(e.status)
          ELSE IF e.code = "ECONNABORTED" THEN "Request timeout. Please try again"
          ELSE IF e.code = "ERR_NETWORK" THEN "Network error. Check your connection"
          ELSE IF Present(e.message) THEN e.message
          ELSE "An error occurred"

\* a 404 whose body carries both a message and an error field was
\* formatted as the message field
C24_Witness ==
  /\ endFlow.pc = "formatted"
  /\ endFlow.rejection.isAxios
  /\ endFlow.rejection.status = "404"
  /\ Present(endFlow.rejection.dataMessage)
  /\ Present(endFlow.rejection.dataError)
  /\ endFlow.error = endFlow.rejection.dataMessage

----------------------------------------------------------------------------
(* Envelopes of the login response (checked under SpecAuth) *)

\* how many "data" envelopes a body has, up to two
Envelopes(body) ==
  IF body.t = "object" /\ body.data.t = "object"
  THEN (IF body.data.data.t = "object" THEN 2 ELSE 1)
  ELSE 0

\* what the envelopes of a body hold
Payload(body) ==
  IF Envelopes(body) = 2 THEN body.data.data
  ELSE IF Envelopes(body) = 1 THEN body.data
  ELSE body

\* a payload of the shape {user, token}, each possibly missing
IsUserToken(payload) ==
  /\ payload.t = "object"
  /\ payload.zero.t = "undefined"
  /\ payload.access_token.t = "undefined"

\* the user the payload identifies: its id or else its user_id, and its email
UserOf(payload) ==
  [id    |-> IF payload.user.id.t = "string" THEN payload.user.id.s ELSE payload.user.user_id.s,
   email |-> payload.user.email.s]

\* the payload holds a user with an id and an email, and a real token
CompletePayload(payload) ==
  /\ payload.user.t = "object"
  /\ payload.user.id.t = "string" \/ payload.user.user_id.t = "string"
  /\ payload.user.email.t = "string"
  /\ payload.token.t = "string"
  /\ payload.token.s \notin {"", "undefined", "null"}

\* C25: what login returns and stores is decided by the payload {user,
\* token} alone, whether it arrives directly, under data or under
\* data.data: the user and token of a complete payload are returned and
\* stored, an incomplete payload makes login raise and clear the session.
C25_EnvelopeIndependent ==
  (Responded("login") /\ last.outcome = "200" /\ IsUserToken(Payload(authIn))) =>
    IF CompletePayload(Payload(authIn))
    THEN /\ ~last.raised
         /\ last.retUser = UserOf(Payload(authIn))
         /\ last.retToken = Payload(authIn).token.s
         /\ localUser = last.retUser
         /\ localToken = last.retToken
         /\ defaultAuth = last.retToken
    ELSE /\ last.raised
         /\ localUser = NoUser
         /\ localToken = NoVal
         /\ defaultAuth = NoVal

\* login was answered {data: {data: {user, token}}} and returned the user
\* and the token
C25_Witness ==
  /\ Responded("login")
  /\ last.outcome = "200"
  /\ Envelopes(authIn) = 2
  /\ IsUserToken(Payload(authIn))
  /\ CompletePayload(Payload(authIn))
  /\ ~last.raised
  /\ last.retUser.id = "u1"
  /\ localToken = Payload(authIn).token.s

----------------------------------------------------------------------------
(* The home page (checked under SpecHome) *)

\* the garage whose listing holds a slot
GarageOfSlot(id) == IF id = "a1" THEN "gA" ELSE "gB"

\* C26: the slot list shown belongs to the selected garage, and the home
\* page never starts a booking with the id of one garage and the id of a
\* slot of another.
C26_SlotsOfSelectedGarage ==
  /\ \A i \in 1..Len(home.slots) : GarageOfSlot(home.slots[i].id) = home.garage
  /\ home.nav # NoNav => GarageOfSlot(home.nav.slotId) = home.nav.garageId

----------------------------------------------------------------------------
(* The bookings page (checked under SpecPage) *)

\* C29: a booking the page has cancelled is in the past list with status
\* cancelled whenever the lists are shown after a fetch that succeeded,
\* the fetches after the cancel action included.
C29_CancelSurvivesRefetch ==
  (bookingsPage.pc = "shown" /\ bookingsPage.outcome = "200") =>
    \A id \in bookingsPage.cancelledHere :
      \E j \in 1..Len(bookingsPage.past) :
        /\ bookingsPage.past[j].id = id
        /\ bookingsPage.past[j].status = "cancelled"

----------------------------------------------------------------------------
(* Interleavings of the session machine (checked under Spec) *)

\* C27: a response to a login, register or refresh request that arrives
\* right after the response to logout, hence to a request that was in
\* flight when logout ran, leaves the session Anonymous.
C27_LogoutStaysAnonymous ==
  [][(/\ last.step = "response"
      /\ last.op = "logout"
      /\ last'.step = "response"
      /\ last'.op \in {"login", "register", "refresh"})
       => Anonymous']_vars

\* C28: the stored token and the stored user snapshot are both present or
\* both absent.
C28_TokenAndUserTogether ==
  (OrStr(localToken, sessionToken) # NoVal) <=> (localUser # NoUser)

====
